---- MODULE Spec2Model ----
(***************************************************************************)
(* Bifrost: the account vault (segment files, index, trash, cleanup) and   *)
(* the transaction executor that reads accounts from it, runs the          *)
(* instructions on a working set and commits the writable accounts.        *)
(*                                                                         *)
(* Offsets and sizes are bytes.  Account ids of a message are 1-based here *)
(* (0-based in the code).  u64 arithmetic is scaled to Width bits.         *)
(***************************************************************************)
EXTENDS Integers, Sequences, FiniteSets, TLC

\* ------------------------------------------------------------------ bounds
\* size threshold of a segment file, in bytes (250 in the tests)
MAX_ACCOUNT_FILE_SIZE == 17
\* number of operations in one behaviour
MaxOps == 4
\* the slots used by save_account are 0..MaxSlot
MaxSlot == 1
\* width of the unsigned balance (64 in the code)
Width == 24
\* transactions the processor executes in one behaviour
MaxTrx == 1
\* number of operations on slot writers in one behaviour
MaxWriterOps == 6
\* number of persists, crashes and reloads of the vault in one behaviour
MaxDiskOps == 3
MaxInstr == 2
MaxSigs == 2
MaxReg == 2
MaxBlockOps == 5
IdWidth == 2
MaxCompiled == 3
\* transactions submitted to the processor tasks in one behaviour
MaxSubmitted == 2

\* --------------------------------------------------------------- constants
\* size of a borsh-serialized Wallet (one u64)
WalletSize == 8
\* size of the length that borsh puts in front of a serialized Vec<u8>
VecPrefixSize == 4
TRANSACTION_FEE == 5000
CURRENT_SLOT == 1

Modulus == 2 ^ Width
\* the ids of a compiled instruction are u8, scaled to IdWidth bits
IdModulus == 2 ^ IdWidth

WalletKeys == {"A", "B"}
SYSTEM_PROGRAM == "SYS"
TESTING_PROGRAM == "TST"
Slots == 0 .. MaxSlot
CleanupSlots == 0 .. (MaxSlot + 1)
\* further wallet keys, for messages with more accounts than ids
MoreWallets == {"C", "D", "E"}
SeedPrisms == {500000, 1000000}

VARIABLES
    files,          \* accounts/<slot>.<id> -> the records of the segment file
    index,          \* Index.accounts: key -> AccountDiskLocation
    trash,          \* Trash.trash: AccountFile -> list of Loc
    lastSaved,      \* key -> wallet of its most recent successful save_account (-1: none)
    last,           \* the operation that produced this state and its result
    nops,           \* number of vault operations so far
    ntrx,           \* number of transactions executed so far
    overflowChecks, \* the build panics on integer overflow (debug) or wraps (release)
    alive,          \* the processor task is running
    history,        \* the locations installed by save_account, while nothing else wrote the vault
    sw,             \* the slot writer, the segment files it writes and the flushes it spawned
    disk,           \* the index and trash files of the vault, and whether the process is up
    trx,            \* the transaction a client builds, signs, receives or registers
    tq,             \* TRANSACTION_QUEUE, the status channels and what the processor executed
    call,           \* a call of a function on its own: its arguments, then its result
    blk,            \* the current block, the blocks finalized and the signatures added
    pr              \* the processor tasks step by step, the vault lock and the stop signals

vars ==
    <<files, index, trash, lastSaved, last, nops, ntrx, overflowChecks, alive, history, sw, disk,
      trx, tq, call, blk, pr>>

\* ------------------------------------------------------------------ helpers
Max(S) == CHOOSE x \in S : \A y \in S : y <= x

RECURSIVE SumSeq(_)
SumSeq(s) == IF s = <<>> THEN 0 ELSE Head(s) + SumSeq(Tail(s))

\* all orders in which the elements of S can be iterated
OrdersOf(S) ==
    {s \in [1 .. Cardinality(S) -> S] : \A i, j \in DOMAIN s : i # j => s[i] # s[j]}

\* the empty map
EmptyFn == [x \in {} |-> 0]

InSeq(x, s) == \E i \in DOMAIN s : s[i] = x

\* ------------------------------------------------------------ segment files
AccountFile(slot, id) == [slot |-> slot, id |-> id]

AccountFile_from_loc(loc) == [slot |-> loc.slot, id |-> loc.id]

Loc_from_loc(loc) == [offset |-> loc.offset, size |-> loc.size]

NoLoc == [slot |-> 0, id |-> 0, offset |-> 0, size |-> 0]

\* metadata().len() of a segment file, 0 when the file does not exist
FileLen(fs, file) == IF file \in DOMAIN fs THEN Len(fs[file]) * WalletSize ELSE 0

\* the highest id among the files "<slot>.*", 0 when there is none
get_id_from_files(fs, slot) ==
    LET ids == {f.id : f \in {g \in DOMAIN fs : g.slot = slot}}
    IN  IF ids = {} THEN 0 ELSE Max(ids)

\* the segment is full: its length has reached the threshold
SegmentFull(len) == len >= MAX_ACCOUNT_FILE_SIZE

append_to_file(fs, file, prisms) ==
    [f \in DOMAIN fs \cup {file} |->
        IF f = file
        THEN Append(IF file \in DOMAIN fs THEN fs[file] ELSE <<>>, prisms)
        ELSE fs[f]]

\* AccountDiskLocation::new_from_write: append the wallet to the active
\* segment of the slot, rolling to id+1 once the segment is full
new_from_write(fs, prisms, slot, ioOk) ==
    LET top    == get_id_from_files(fs, slot)
        id     == IF SegmentFull(FileLen(fs, AccountFile(slot, top))) THEN top + 1 ELSE top
        file   == AccountFile(slot, id)
        offset == FileLen(fs, file)
    IN  IF ~ioOk
        THEN [ok |-> FALSE, files |-> fs, loc |-> NoLoc]
        ELSE [ok |-> TRUE, files |-> append_to_file(fs, file, prisms),
              loc |-> [slot |-> slot, id |-> id, offset |-> offset, size |-> WalletSize]]

\* AccountDiskLocation::read through read_from_file_map
read_from_file_map(fs, loc) ==
    LET file == AccountFile(loc.slot, loc.id)
    IN  IF file \notin DOMAIN fs
        THEN [ok |-> FALSE, err |-> "FileSystem", prisms |-> 0]
        ELSE IF loc.offset + loc.size > FileLen(fs, file)
        THEN [ok |-> FALSE, err |-> "OutOfBounds", prisms |-> 0]
        ELSE [ok |-> TRUE, err |-> "", prisms |-> fs[file][(loc.offset \div WalletSize) + 1]]

\* -------------------------------------------------------------- slot writer
\* a segment file written by a SlotWriter is a sequence of flushed blocks,
\* each the borsh serialization of the Vec<u8> buffer
BlockLen(block) == VecPrefixSize + Len(block) * WalletSize

RECURSIVE metadata_len(_, _)
metadata_len(fs, file) ==
    IF file \notin DOMAIN fs \/ fs[file] = <<>> THEN 0
    ELSE BlockLen(Head(fs[file])) + metadata_len([fs EXCEPT ![file] = Tail(@)], file)

NoWriter == [open |-> FALSE, slot |-> 0, id |-> 0, offset |-> 0, buffer |-> <<>>]

SlotWriter_new(fs, slot) ==
    LET id == get_id_from_files(fs, slot)
    IN  [open |-> TRUE, slot |-> slot, id |-> id,
         offset |-> metadata_len(fs, AccountFile(slot, id)), buffer |-> <<>>]

get_account_loc(w, size) == [slot |-> w.slot, id |-> w.id, offset |-> w.offset, size |-> size]

\* append_to_file(path, &data) with data: Vec<u8>; the file is created when missing
append_block(fs, file, buffer) ==
    [f \in DOMAIN fs \cup {file} |->
        IF f = file
        THEN Append(IF file \in DOMAIN fs THEN fs[file] ELSE <<>>, buffer)
        ELSE fs[f]]

\* the buffer is taken, then appended to the segment; a write error is only logged
flush(w, fs, ioOk) ==
    [w  |-> [w EXCEPT !.buffer = <<>>],
     fs |-> IF ioOk THEN append_block(fs, AccountFile(w.slot, w.id), w.buffer) ELSE fs]

next_id(w, fs, ioOk) ==
    LET f == flush(w, fs, ioOk)
    IN  [w |-> [f.w EXCEPT !.id = w.id + 1, !.offset = 0], fs |-> f.fs]

\* "if self.offset >= MAX_ACCOUNT_FILE_SIZE"
RollAfter(offset) == offset >= MAX_ACCOUNT_FILE_SIZE

SlotWriter_append(w, fs, prisms, ioOk) ==
    LET res == get_account_loc(w, WalletSize)
        w1  == [w EXCEPT !.buffer = Append(@, prisms), !.offset = w.offset + WalletSize]
    IN  IF RollAfter(w1.offset)
        THEN LET n == next_id(w1, fs, ioOk) IN [loc |-> res, w |-> n.w, fs |-> n.fs]
        ELSE [loc |-> res, w |-> w1, fs |-> fs]

\* ------------------------------------------------------- index and trash files
\* write_to_file: create, truncate, write_all, flush.  outcome "done": the
\* file holds the value; "failed": the file could not be opened and is left
\* as it was; "torn": the process died between the truncation and the end
\* of the write
write_to_file(blob, value, outcome) ==
    IF outcome = "done" THEN [state |-> "valid", value |-> value]
    ELSE IF outcome = "torn" THEN [state |-> "corrupt", value |-> EmptyFn]
    ELSE blob

\* Index::load_from_disk, Trash::load_from_disk
load_from_disk(blob) ==
    IF blob.state = "absent" THEN [ok |-> FALSE, err |-> "FileNotFound", value |-> EmptyFn]
    ELSE IF blob.state = "corrupt" THEN [ok |-> FALSE, err |-> "FileSystem", value |-> EmptyFn]
    ELSE [ok |-> TRUE, err |-> "", value |-> blob.value]

\* Index::load_or_create, Trash::load_or_create
load_or_create(blob) ==
    LET r == load_from_disk(blob)
    IN  [ok |-> TRUE, err |-> "", value |-> IF r.ok THEN r.value ELSE EmptyFn]

\* Vault::load_or_create, the folders of the vault being there
Vault_load_or_create(d) ==
    LET i == load_or_create(d.index)
        t == load_or_create(d.trash)
    IN  [ok |-> i.ok /\ t.ok, err |-> IF ~i.ok THEN i.err ELSE t.err,
         index |-> i.value, trash |-> t.value]

\* Vault::save: the index, then the trash
Vault_save(v, d, outcome1, outcome2) ==
    LET d1 == [d EXCEPT !.index = write_to_file(d.index, v.index, outcome1)]
    IN  IF outcome1 # "done"
        THEN [ok |-> FALSE, disk |-> [d1 EXCEPT !.up = outcome1 # "torn"]]
        ELSE [ok |-> outcome2 = "done",
              disk |-> [d1 EXCEPT !.trash = write_to_file(d.trash, v.trash, outcome2),
                                  !.up = outcome2 # "torn"]]

\* -------------------------------------------------------------------- index
Index_find(idx, key) == key \in DOMAIN idx

Index_load(v, key) ==
    IF ~Index_find(v.index, key)
    THEN [ok |-> TRUE, err |-> "", found |-> FALSE, prisms |-> 0]
    ELSE LET r == read_from_file_map(v.files, v.index[key])
         IN  [ok |-> r.ok, err |-> r.err, found |-> r.ok, prisms |-> r.prisms]

set_account(idx, key, loc) ==
    [k \in DOMAIN idx \cup {key} |-> IF k = key THEN loc ELSE idx[k]]

accounts_on_file(idx, slot, id) ==
    {k \in DOMAIN idx : idx[k].slot = slot /\ idx[k].id = id}

\* -------------------------------------------------------------------- trash
\* a variant that pushes the range without looking for it in the entry
Trash_insert_unchecked(tr, loc) ==
    LET file  == AccountFile_from_loc(loc)
        entry == IF file \in DOMAIN tr THEN tr[file] ELSE <<>>
    IN  [ok |-> TRUE,
         trash |-> [f \in DOMAIN tr \cup {file} |->
                       IF f = file THEN Append(entry, Loc_from_loc(loc)) ELSE tr[f]]]

Trash_insert(tr, loc) ==
    LET file  == AccountFile_from_loc(loc)
        entry == IF file \in DOMAIN tr THEN tr[file] ELSE <<>>
    IN  IF InSeq(Loc_from_loc(loc), entry)
        THEN [ok |-> FALSE, trash |-> tr]
        ELSE [ok |-> TRUE,
              trash |-> [f \in DOMAIN tr \cup {file} |->
                            IF f = file THEN Append(entry, Loc_from_loc(loc)) ELSE tr[f]]]

Trash_remove(tr, file) == [f \in DOMAIN tr \ {file} |-> tr[f]]

TrashedBytes(tr, file) == SumSeq([i \in DOMAIN tr[file] |-> tr[file][i].size])

\* a variant that compares the trashed bytes with the whole segment size
get_files_to_clean_full(tr) ==
    {file \in DOMAIN tr : TrashedBytes(tr, file) >= MAX_ACCOUNT_FILE_SIZE}

get_files_to_clean(tr) ==
    {file \in DOMAIN tr : TrashedBytes(tr, file) >= MAX_ACCOUNT_FILE_SIZE \div 2}

\* -------------------------------------------------------------------- vault
\* a variant that reports an account missing from the index as an error
Vault_get_strict(v, key) ==
    LET r == Index_load(v, key)
    IN  [ok |-> r.ok /\ r.found, err |-> IF r.found THEN r.err ELSE "NotFound",
         prisms |-> IF r.ok /\ r.found THEN r.prisms ELSE 0]

Vault_get(v, key) ==
    LET r == Index_load(v, key)
    IN  [ok |-> r.ok, err |-> r.err, prisms |-> IF r.ok /\ r.found THEN r.prisms ELSE 0]

save_account(v, key, prisms, slot, ioOk) ==
    LET ins == IF Index_find(v.index, key)
               THEN Trash_insert(v.trash, v.index[key])
               ELSE [ok |-> TRUE, trash |-> v.trash]
    IN  IF ~ins.ok
        THEN [ok |-> FALSE, err |-> "DuplicateLocationInTrash", v |-> v]
        ELSE LET w == new_from_write(v.files, prisms, slot, ioOk)
             IN  IF ~w.ok
                 THEN [ok |-> FALSE, err |-> "FileSystem",
                       v |-> [v EXCEPT !.trash = ins.trash]]
                 ELSE [ok |-> TRUE, err |-> "",
                       v |-> [files |-> w.files,
                              index |-> set_account(v.index, key, w.loc),
                              trash |-> ins.trash]]

RECURSIVE relocate_keys(_, _, _, _)
relocate_keys(v, keys, slot, i) ==
    IF i > Len(keys)
    THEN [ok |-> TRUE, err |-> "", v |-> v]
    ELSE LET r == Index_load(v, keys[i])
         IN  IF ~r.ok
             THEN [ok |-> FALSE, err |-> r.err, v |-> v]
             ELSE LET w == new_from_write(v.files, r.prisms, slot, TRUE)
                  IN  relocate_keys([v EXCEPT !.files = w.files,
                                              !.index = set_account(v.index, keys[i], w.loc)],
                                    keys, slot, i + 1)

\* keyOrder: the order in which the index map is iterated
relocate_accounts(v, slot, id, keyOrder) ==
    LET OnFile(k) == k \in accounts_on_file(v.index, slot, id)
    IN  relocate_keys(v, SelectSeq(keyOrder, OnFile), slot, 1)

remove_file(fs, file) == [f \in DOMAIN fs \ {file} |-> fs[f]]

\* "if slot == current_slot { continue; }"
IsCurrentSlot_never(slot, current_slot) == FALSE

IsCurrentSlot(slot, current_slot) == slot = current_slot

\* the next element of to_clean after a skipped file ("continue")
AfterSkip_break(i, n) == n + 1

AfterSkip(i, n) == i + 1

RECURSIVE cleanup_files(_, _, _, _, _)
cleanup_files(v, to_clean, i, current_slot, keyOrder) ==
    IF i > Len(to_clean)
    THEN [ok |-> TRUE, err |-> "", v |-> v, removed |-> {}]
    ELSE LET file == to_clean[i]
         IN  IF IsCurrentSlot(file.slot, current_slot)
             THEN cleanup_files(v, to_clean, AfterSkip(i, Len(to_clean)), current_slot, keyOrder)
             ELSE LET r == relocate_accounts(v, file.slot, file.id, keyOrder)
                  IN  IF ~r.ok
                      THEN [ok |-> FALSE, err |-> r.err, v |-> r.v, removed |-> {}]
                      ELSE IF file \notin DOMAIN r.v.files
                      THEN [ok |-> FALSE, err |-> "FileSystem", v |-> r.v, removed |-> {}]
                      ELSE LET c == cleanup_files(
                                        [r.v EXCEPT !.files = remove_file(r.v.files, file),
                                                    !.trash = Trash_remove(r.v.trash, file)],
                                        to_clean, i + 1, current_slot, keyOrder)
                           IN  [c EXCEPT !.removed = c.removed \cup {file}]

\* fileOrder: the order in which the trash map is iterated; removed: the
\* files given to remove_file
cleanup(v, current_slot, fileOrder, keyOrder) ==
    cleanup_files(v, fileOrder, 1, current_slot, keyOrder)

\* ----------------------------------------------------------- account metas
AccountMeta_signing(key, writable) == [key |-> key, kind |-> "Signing", writable |-> writable]

AccountMeta_wallet(key, writable) == [key |-> key, kind |-> "Wallet", writable |-> writable]

AccountMeta_program(key) == [key |-> key, kind |-> "Program", writable |-> FALSE]

is_signing(meta) == meta.kind = "Signing"

is_writable(meta) == meta.writable

is_wallet(kind) == kind \in {"Wallet", "Signing"}

is_compatible(kind, other) == (is_wallet(kind) /\ is_wallet(other)) \/ kind = other

\* a variant in which a Wallet entry is never promoted to Signing
AccountMeta_merge_nopromote(meta, other) ==
    IF ~is_compatible(meta.kind, other.kind)
    THEN [ok |-> FALSE, err |-> "MergeIncompatibleAccountTypes", meta |-> meta]
    ELSE [ok |-> TRUE, err |-> "",
          meta |-> [key |-> meta.key, kind |-> meta.kind,
                    writable |-> meta.writable \/ is_writable(other)]]

AccountMeta_merge(meta, other) ==
    IF ~is_compatible(meta.kind, other.kind)
    THEN [ok |-> FALSE, err |-> "MergeIncompatibleAccountTypes", meta |-> meta]
    ELSE [ok |-> TRUE, err |-> "",
          meta |-> [key |-> meta.key,
                    kind |-> IF is_signing(other) THEN "Signing" ELSE meta.kind,
                    writable |-> meta.writable \/ is_writable(other)]]

\* ---------------------------------------------------------------- messages
Instruction_new(program_id, accounts, data) ==
    [program_id |-> program_id, accounts |-> accounts, data |-> data]

CompiledInstruction_new(program_account_id, data, accounts) ==
    [program_account_id |-> program_account_id, data |-> data, accounts |-> accounts]

Message_new == [instructions |-> <<>>, accounts |-> <<>>]

\* iter().position(): first position of the key in the accounts, 0 when absent
position(accounts, key) ==
    IF \E i \in DOMAIN accounts : accounts[i].key = key
    THEN CHOOSE i \in DOMAIN accounts :
            accounts[i].key = key /\ \A j \in DOMAIN accounts : accounts[j].key = key => i <= j
    ELSE 0

\* `idx as u8` of a position: the low IdWidth bits of the 0-based index
as_u8(pos) == ((pos - 1) % IdModulus) + 1

\* Some(position as u8), 0 when absent
find_account(accounts, key) ==
    IF position(accounts, key) = 0 THEN 0 ELSE as_u8(position(accounts, key))

\* a variant that keeps the entry it finds as it is
find_or_add_account_kept(accounts, account) ==
    LET idx == find_account(accounts, account.key)
    IN  IF idx # 0
        THEN [ok |-> TRUE, idx |-> idx, accounts |-> accounts]
        ELSE [ok |-> TRUE, idx |-> as_u8(Len(accounts) + 1), accounts |-> Append(accounts, account)]

find_or_add_account(accounts, account) ==
    LET idx == find_account(accounts, account.key)
    IN  IF idx # 0
        THEN LET m == AccountMeta_merge(accounts[idx], account)
             IN  [ok |-> m.ok, idx |-> idx, accounts |-> [accounts EXCEPT ![idx] = m.meta]]
        ELSE [ok |-> TRUE, idx |-> as_u8(Len(accounts) + 1), accounts |-> Append(accounts, account)]

RECURSIVE compile_accounts(_, _, _, _)
compile_accounts(accounts, metas, i, ids) ==
    IF i > Len(metas)
    THEN [ok |-> TRUE, accounts |-> accounts, ids |-> ids]
    ELSE LET r == find_or_add_account(accounts, metas[i])
         IN  IF ~r.ok
             THEN [ok |-> FALSE, accounts |-> accounts, ids |-> ids]
             ELSE compile_accounts(r.accounts, metas, i + 1, Append(ids, r.idx))

\* Pubkey::is_oncurve: the keys of the wallets are on the curve, those of the programs are not
is_oncurve(key) == key \in WalletKeys \cup MoreWallets

\* the accounts compiled before a failing step stay in the message
add_instruction(msg, instruction) ==
    LET c == compile_accounts(msg.accounts, instruction.accounts, 1, <<>>)
        p == find_or_add_account(c.accounts, AccountMeta_program(instruction.program_id))
    IN  IF ~c.ok \/ is_oncurve(instruction.program_id)
        THEN [ok |-> FALSE, msg |-> [msg EXCEPT !.accounts = c.accounts]]
        ELSE IF ~p.ok
        THEN [ok |-> FALSE, msg |-> [msg EXCEPT !.accounts = p.accounts]]
        ELSE [ok |-> TRUE,
              msg |-> [instructions |-> Append(msg.instructions,
                                               CompiledInstruction_new(p.idx, instruction.data, c.ids)),
                       accounts |-> p.accounts]]

\* key of the first Signing meta ("" when there is none)
get_payer(msg) ==
    IF \E i \in DOMAIN msg.accounts : is_signing(msg.accounts[i])
    THEN msg.accounts[CHOOSE i \in DOMAIN msg.accounts :
                        /\ is_signing(msg.accounts[i])
                        /\ \A j \in DOMAIN msg.accounts : is_signing(msg.accounts[j]) => i <= j].key
    ELSE ""

Message_is_valid(msg) == msg.instructions # <<>> /\ msg.accounts # <<>>

\* system::instruction::transfer and testing_dummy::instruction::burn_prisms
system_transfer(from, to, amount) ==
    Instruction_new(SYSTEM_PROGRAM,
                    <<AccountMeta_signing(from, TRUE), AccountMeta_wallet(to, TRUE)>>, amount)

testing_burn_prisms(from, to, amount) ==
    Instruction_new(TESTING_PROGRAM,
                    <<AccountMeta_signing(from, TRUE), AccountMeta_wallet(to, TRUE)>>, amount)

\* ------------------------------------------------------ instruction accessors
set_prisms(ws, metas, i, amount) ==
    IF ~is_writable(metas[i])
    THEN [ok |-> FALSE, err |-> "ModificationOfReadOnlyAccount", ws |-> ws]
    ELSE [ok |-> TRUE, err |-> "", ws |-> [ws EXCEPT ![i] = amount]]

\* a variant that adds without the check, as a wrapping u64 addition
add_prisms_wrapping(ws, metas, i, amount) ==
    set_prisms(ws, metas, i, (ws[i] + amount) % Modulus)

add_prisms(ws, metas, i, amount) ==
    IF ws[i] + amount >= Modulus
    THEN [ok |-> FALSE, err |-> "ArithmeticOverflow", ws |-> ws]
    ELSE set_prisms(ws, metas, i, ws[i] + amount)

sub_prisms(ws, metas, i, amount) ==
    IF ws[i] < amount
    THEN [ok |-> FALSE, err |-> "ArithmeticOverflow", ws |-> ws]
    ELSE set_prisms(ws, metas, i, ws[i] - amount)

\* ----------------------------------------------------------------- programs
\* ids: the instruction's accounts, as positions in the working set
\* a variant without the test that the payer signs
transfer_unsigned(ws, metas, ids, amount) ==
    IF Len(ids) < 2
    THEN [ok |-> FALSE, err |-> "MissingAccounts", ws |-> ws]
    ELSE LET s == sub_prisms(ws, metas, ids[1], amount)
         IN  IF ~s.ok THEN s ELSE add_prisms(s.ws, metas, ids[2], amount)

transfer(ws, metas, ids, amount) ==
    IF Len(ids) < 1
    THEN [ok |-> FALSE, err |-> "MissingAccounts", ws |-> ws]
    ELSE IF ~is_signing(metas[ids[1]])
    THEN [ok |-> FALSE, err |-> "Custom", ws |-> ws]
    ELSE IF Len(ids) < 2
    THEN [ok |-> FALSE, err |-> "MissingAccounts", ws |-> ws]
    ELSE LET s == sub_prisms(ws, metas, ids[1], amount)
         IN  IF ~s.ok THEN s ELSE add_prisms(s.ws, metas, ids[2], amount)

dispatch(program, ws, metas, ids, data) ==
    IF program = SYSTEM_PROGRAM
    THEN transfer(ws, metas, ids, data)
    ELSE [ok |-> FALSE, err |-> "UnknownProgram", ws |-> ws]

\* ----------------------------------------------------------------- executor
RECURSIVE read_accounts(_, _, _, _)
read_accounts(v, metas, i, res) ==
    IF i > Len(metas)
    THEN [ok |-> TRUE, ws |-> res]
    ELSE LET account == Vault_get(v, metas[i].key)
         IN  IF ~account.ok
             THEN [ok |-> FALSE, ws |-> res]
             ELSE read_accounts(v, metas, i + 1, Append(res, account.prisms))

get_transaction_accounts(v, metas) == read_accounts(v, metas, 1, <<>>)

RECURSIVE run_instructions(_, _, _, _)
run_instructions(ws, metas, instructions, i) ==
    IF i > Len(instructions)
    THEN [ok |-> TRUE, err |-> "", ws |-> ws]
    ELSE LET instr == instructions[i]
             r == dispatch(metas[instr.program_account_id].key, ws, metas,
                           instr.accounts, instr.data)
         IN  IF ~r.ok THEN r ELSE run_instructions(r.ws, metas, instructions, i + 1)

\* "if !meta.is_writable() { continue; }"
SkipOnCommit_never(meta) == FALSE

SkipOnCommit(meta) == ~is_writable(meta)

\* failAt: which save_account call of the commit meets a write error (0: none)
RECURSIVE save_accounts(_, _, _, _, _, _)
save_accounts(v, metas, ws, i, nsaved, failAt) ==
    IF i > Len(metas)
    THEN [ok |-> TRUE, err |-> "", v |-> v, nsaved |-> nsaved]
    ELSE IF SkipOnCommit(metas[i])
    THEN save_accounts(v, metas, ws, i + 1, nsaved, failAt)
    ELSE LET r == save_account(v, metas[i].key, ws[i], CURRENT_SLOT, failAt # nsaved + 1)
         IN  IF ~r.ok
             THEN [ok |-> FALSE, err |-> r.err, v |-> r.v, nsaved |-> nsaved]
             ELSE save_accounts(r.v, metas, ws, i + 1, nsaved + 1, failAt)

ExecResult(status, stage, err, v, ws, nsaved) ==
    [status |-> status, stage |-> stage, err |-> err, v |-> v, ws |-> ws, nsaved |-> nsaved]

\* "prisms -= TRANSACTION_FEE" on a u64
FeeDebit(prisms) == (prisms - TRANSACTION_FEE) % Modulus

PrismTotal(ws) == SumSeq(ws) % Modulus

TotalChanged(before, after) == before # after

\* the transaction from the fee debit to the conservation check, on the
\* wallets read from the vault; status "Run": the working set is to be committed
execute_before_commit(v, msg, checks, ws, payer_id) ==
    LET metas   == msg.accounts
        debited == [ws EXCEPT ![payer_id] = FeeDebit(ws[payer_id])]
        run     == run_instructions(debited, metas, msg.instructions, 1)
    IN  IF checks /\ ws[payer_id] < TRANSACTION_FEE
        THEN ExecResult("Panicked", "fee", "overflow", v, ws, 0)
        ELSE IF checks /\ SumSeq(debited) >= Modulus
        THEN ExecResult("Panicked", "total", "overflow", v, debited, 0)
        ELSE IF ~run.ok
        THEN ExecResult("Failed", "dispatch", run.err, v, run.ws, 0)
        ELSE IF checks /\ SumSeq(run.ws) >= Modulus
        THEN ExecResult("Panicked", "total", "overflow", v, run.ws, 0)
        ELSE IF TotalChanged(PrismTotal(debited), PrismTotal(run.ws))
        THEN ExecResult("Failed", "conservation", "PrismTotalChanged", v, run.ws, 0)
        ELSE ExecResult("Run", "commit", "", v, run.ws, 0)

\* save_accounts(vault, metas, accounts) and the status of the transaction
commit(v, msg, ws, failAt) ==
    LET c == save_accounts(v, msg.accounts, ws, 1, 0, failAt)
    IN  IF ~c.ok
        THEN ExecResult("Failed", "commit", c.err, c.v, ws, c.nsaved)
        ELSE ExecResult("Succeeded", "commit", "", c.v, ws, c.nsaved)

\* the transaction from the fee debit on; ws: the wallets read from the vault
execute_after_read(v, msg, checks, failAt, ws, payer_id) ==
    LET b == execute_before_commit(v, msg, checks, ws, payer_id)
    IN  IF b.status # "Run" THEN b ELSE commit(v, msg, b.ws, failAt)

\* a variant that persists the debited payer before the instructions run
execute_transaction_inner_fee_saved(v, msg, checks, failAt) ==
    LET payer_id == position(msg.accounts, get_payer(msg))
        got      == get_transaction_accounts(v, msg.accounts)
    IN  IF ~got.ok
        THEN ExecResult("Failed", "read", "Io", v, got.ws, 0)
        ELSE execute_after_read(
                 save_account(v, get_payer(msg), FeeDebit(got.ws[payer_id]), CURRENT_SLOT, TRUE).v,
                 msg, checks, failAt, got.ws, payer_id)

\* checks: integer overflow panics (debug build) instead of wrapping (release build)
execute_transaction_inner(v, msg, checks, failAt) ==
    LET payer_id == position(msg.accounts, get_payer(msg))
        got      == get_transaction_accounts(v, msg.accounts)
    IN  IF ~got.ok
        THEN ExecResult("Failed", "read", "Io", v, got.ws, 0)
        ELSE execute_after_read(v, msg, checks, failAt, got.ws, payer_id)

\* ------------------------------------------------------ admitted transactions
Amounts == {500000}

WalletMetas(key) ==
    {[key |-> key, kind |-> kind, writable |-> w] : kind \in {"Signing", "Wallet"}, w \in BOOLEAN}

\* the account lists of the hand-built messages: two wallets, then the program
WalletLists == {<<m1, m2>> : m1 \in WalletMetas("A"), m2 \in WalletMetas("B")}

IdLists(n) == {<<i>> : i \in 1 .. n} \cup {<<i, j>> : i \in 1 .. n, j \in 1 .. n}

HandBuiltMessages ==
    UNION {{[instructions |-> <<CompiledInstruction_new(Len(wl) + 1, amount, ids)>>,
             accounts |-> Append(wl, AccountMeta_program(SYSTEM_PROGRAM))] :
                ids \in IdLists(Len(wl)), amount \in Amounts} : wl \in WalletLists}

AddBuiltMessages ==
    {add_instruction(Message_new, instr).msg :
        instr \in {system_transfer(from, to, amount) :
                        from \in WalletKeys, to \in WalletKeys, amount \in Amounts}
                  \cup {testing_burn_prisms(p[1], p[2], amount) :
                        p \in {q \in WalletKeys \X WalletKeys : q[1] # q[2]},
                        amount \in Amounts}}

\* every signer has signed: what is left of is_ready is the shape of the message
Admitted(msg) == Message_is_valid(msg) /\ get_payer(msg) # ""

AdmittedMessages == {msg \in HandBuiltMessages \cup AddBuiltMessages : Admitted(msg)}

FailPoints == 0 .. 2

\* ------------------------------------------------------------- transactions
Transaction_new == [signatures |-> <<>>, message |-> Message_new]

\* Message::to_vec: the fields of the message in the order of the struct
Message_to_vec(msg) == <<CURRENT_SLOT, msg.instructions, msg.accounts>>

\* Keypair::sign: an ed25519 signature of the bytes, deterministic for a key
Keypair_sign(key, bytes) == [signer |-> key, bytes |-> bytes, nonce |-> 0]

\* Signature::verify(pubkey, message): verify_strict of ed25519
Signature_verify(signature, pubkey, bytes) ==
    signature.signer = pubkey /\ signature.bytes = bytes

RECURSIVE signers_of(_)
signers_of(accounts) ==
    IF accounts = <<>>
    THEN <<>>
    ELSE IF is_signing(Head(accounts))
         THEN <<Head(accounts).key>> \o signers_of(Tail(accounts))
         ELSE signers_of(Tail(accounts))

get_signers(t) == signers_of(t.message.accounts)

validate_signers(t, signers) ==
    IF ~(\A i \in DOMAIN signers :
            \E j \in DOMAIN t.signatures :
                Signature_verify(t.signatures[j], signers[i], Message_to_vec(t.message)))
    THEN [ok |-> FALSE, err |-> "SignaturesMismatch"]
    ELSE [ok |-> TRUE, err |-> ""]

\* a variant that does not compare the number of signatures with the signers
check_signed_uncounted(t) ==
    LET signers == get_signers(t)
    IN  IF signers = <<>>
        THEN [ok |-> FALSE, err |-> "NoSignersOnTransaction"]
        ELSE validate_signers(t, signers)

check_signed(t) ==
    LET signers == get_signers(t)
    IN  IF signers = <<>>
        THEN [ok |-> FALSE, err |-> "NoSignersOnTransaction"]
        ELSE IF Len(signers) # Len(t.signatures)
             THEN [ok |-> FALSE, err |-> "WrongNumberOfSignatures"]
             ELSE validate_signers(t, signers)

is_ready(t) == Message_is_valid(t.message) /\ check_signed(t).ok

\* the loop of Transaction::add stops at the first instruction that fails
RECURSIVE add_instructions(_, _)
add_instructions(msg, instructions) ==
    IF instructions = <<>>
    THEN [ok |-> TRUE, msg |-> msg]
    ELSE LET r == add_instruction(msg, Head(instructions))
         IN  IF ~r.ok
             THEN [ok |-> FALSE, msg |-> r.msg]
             ELSE add_instructions(r.msg, Tail(instructions))

\* a variant that keeps the signatures
Transaction_add_keep(t, instructions) ==
    LET r == add_instructions(t.message, instructions)
    IN  [ok |-> r.ok, trx |-> [signatures |-> t.signatures, message |-> r.msg]]

Transaction_add(t, instructions) ==
    LET r == add_instructions(t.message, instructions)
    IN  [ok  |-> r.ok,
         trx |-> [signatures |-> IF r.ok THEN <<>> ELSE t.signatures, message |-> r.msg]]

get_signature(t, key) ==
    IF ~InSeq(key, get_signers(t))
    THEN [ok |-> FALSE, err |-> "UnexpectedSigner", signature |-> Keypair_sign("", <<>>)]
    ELSE [ok |-> TRUE, err |-> "", signature |-> Keypair_sign(key, Message_to_vec(t.message))]

Transaction_sign(t, key) ==
    LET s == get_signature(t, key)
    IN  IF ~s.ok
        THEN [ok |-> FALSE, err |-> s.err, trx |-> t]
        ELSE [ok  |-> TRUE,
              err |-> "",
              trx |-> [t EXCEPT !.signatures =
                            IF key = get_payer(t.message)
                            THEN <<s.signature>> \o @
                            ELSE Append(@, s.signature)]]

\* the instructions a client adds: transfers, instructions on a read-only meta,
\* and one whose program key is the key of a wallet
ClientInstructions ==
    {system_transfer(p[1], p[2], amount) :
        p \in {q \in WalletKeys \X WalletKeys : q[1] # q[2]}, amount \in Amounts}
        \cup {Instruction_new(SYSTEM_PROGRAM, <<[key |-> "A", kind |-> kind, writable |-> FALSE]>>,
                              amount) : kind \in {"Signing", "Wallet"}, amount \in Amounts}
        \cup {Instruction_new("B", <<AccountMeta_signing("B", TRUE)>>, amount) : amount \in Amounts}

\* what a client passes to Transaction::add: one instruction, or two transfers
InstructionLists ==
    {<<i>> : i \in ClientInstructions}
        \cup {<<system_transfer("A", "B", amount), system_transfer("B", "A", amount)>> :
                amount \in Amounts}

RECURSIVE MetasOf(_)
MetasOf(instructions) ==
    IF instructions = <<>>
    THEN {}
    ELSE {Head(instructions).accounts[i] : i \in DOMAIN Head(instructions).accounts}
            \cup {AccountMeta_program(Head(instructions).program_id)}
            \cup MetasOf(Tail(instructions))

\* the messages borsh deserializes: any two writable wallet metas, then the program
ReceivedMetas ==
    {[key |-> k, kind |-> kind, writable |-> TRUE] : k \in WalletKeys, kind \in {"Signing", "Wallet"}}

ReceivedMessages ==
    {[instructions |-> <<CompiledInstruction_new(3, amount, <<1, 2>>)>>,
      accounts     |-> <<m1, m2, AccountMeta_program(SYSTEM_PROGRAM)>>] :
        m1 \in ReceivedMetas, m2 \in ReceivedMetas, amount \in Amounts}

\* the signatures that can come with a message: of any key, over this message or
\* over another one, made by the key holder with any nonce
ReceivedSignatures(msg) ==
    {[signer |-> k, bytes |-> Message_to_vec(msg), nonce |-> n] : k \in WalletKeys, n \in 0 .. 1}
        \cup {[signer |-> k, bytes |-> Message_to_vec(Message_new), nonce |-> 0] : k \in WalletKeys}

SeqsUpTo(S, n) == UNION {[1 .. k -> S] : k \in 0 .. n}

ReceivedTransactions ==
    UNION {{[signatures |-> sigs, message |-> msg] :
                sigs \in SeqsUpTo(ReceivedSignatures(msg), MaxSigs)} : msg \in ReceivedMessages}

\* -------------------------------------------------- transaction queue, status
\* Transaction::is_valid, the admission test of register_transaction
Transaction_is_valid(t) == is_ready(t)

\* no transaction queued, no status channel created, nothing executed
NoQueue == [queue |-> <<>>, chans |-> <<>>, executed |-> <<>>]

\* channel(5) and tx.send(Status::Pending): held, the submitter keeps the receiver
NewChannel == [sent |-> <<"Pending">>, held |-> TRUE]

\* TransactionQueue::send on the unbounded channel
TransactionQueue_send(q, t, chan) == [q EXCEPT !.queue = Append(@, [trx |-> t, chan |-> chan])]

\* a variant that queues the transaction without the admission test
register_transaction_unchecked(q, t) ==
    [ok  |-> TRUE,
     err |-> "",
     q   |-> TransactionQueue_send([q EXCEPT !.chans = Append(@, NewChannel)], t, Len(q.chans) + 1)]

register_transaction(q, t) ==
    IF ~Transaction_is_valid(t)
    THEN [ok |-> FALSE, err |-> "InvalidTransactionSignatures", q |-> q]
    ELSE [ok  |-> TRUE,
          err |-> "",
          q   |-> TransactionQueue_send([q EXCEPT !.chans = Append(@, NewChannel)],
                                        t, Len(q.chans) + 1)]

\* tx_status.send(status).await.unwrap(): the send fails once the receiver is dropped
Status_send(chan, status) ==
    IF chan.held
    THEN [ok |-> TRUE, chan |-> [chan EXCEPT !.sent = Append(@, status)]]
    ELSE [ok |-> FALSE, chan |-> chan]

\* execute_transaction(vault, trx, tx_status); panicked: the processor task is gone
execute_transaction(v, t, chan, checks, failAt) ==
    LET r == execute_transaction_inner(v, t.message, checks, failAt)
        s == Status_send(chan, r.status)
    IN  IF r.status = "Panicked"
        THEN [v |-> r.v, chan |-> chan, panicked |-> TRUE, result |-> r.status]
        ELSE [v |-> r.v, chan |-> s.chan, panicked |-> ~s.ok, result |-> r.status]

RECURSIVE sign_all(_, _)
sign_all(t, keys) ==
    IF keys = <<>> THEN t ELSE sign_all(Transaction_sign(t, Head(keys)).trx, Tail(keys))

\* the transactions a submitter registers: a transfer or a burn, unsigned or
\* signed by its signers
SubmittedInstructions ==
    {system_transfer("A", to, amount) : to \in WalletKeys, amount \in Amounts}
        \cup {testing_burn_prisms("A", "B", amount) : amount \in Amounts}

BuiltTransactions ==
    {Transaction_add(Transaction_new, <<instruction>>).trx : instruction \in SubmittedInstructions}

SubmittedTransactions ==
    BuiltTransactions \cup {sign_all(t, get_signers(t)) : t \in BuiltTransactions}

\* ------------------------------------------------------------------ blocks
GENESIS_BLOCK == "genesis"

\* BlockHash::default()
NoHash == "default"

Block_genesis == [hash |-> NoHash, parent |-> GENESIS_BLOCK, slot |-> 1, transactions |-> <<>>]

\* Sha512 over the parent, the 8 bytes of the slot and the signatures in order
get_hash(b) == <<b.parent, b.slot, b.transactions>>

Block_add_transaction(b, sig) == [b EXCEPT !.transactions = Append(@, sig)]

\* a variant that keeps the signatures of the finalized block in the next one
Block_finalize_keep(b) ==
    LET hash == get_hash(b)
    IN  [res   |-> [b EXCEPT !.hash = hash],
         block |-> [hash |-> hash, parent |-> hash, slot |-> b.slot + 1,
                    transactions |-> b.transactions]]

\* res: the block returned; block: the block that is current afterwards
Block_finalize(b) ==
    LET hash == get_hash(b)
    IN  [res   |-> [b EXCEPT !.hash = hash],
         block |-> [hash |-> hash, parent |-> hash, slot |-> b.slot + 1, transactions |-> <<>>]]

\* the genesis block, no block finalized, no signature added
NoBlocks == [block |-> Block_genesis, chain |-> <<>>, added |-> <<>>, nops |-> 0]

\* the signatures of the transactions a block receives
BlockSignatures == {Keypair_sign(k, Message_to_vec(Message_new)) : k \in WalletKeys}

\* ------------------------------------------------------------------- state
NoMsg == [instructions |-> <<>>, accounts |-> <<>>]

\* ------------------------------------------------------- processor tasks
\* the tasks that run processor() on the process-wide queue and one vault
Processors == {1, 2}

\* a variant that takes the item that entered last
Receiver_recv_last(queue) ==
    [item |-> queue[Len(queue)], rest |-> SubSeq(queue, 1, Len(queue) - 1)]

\* queue.recv() of the async_channel: the item that entered first
Receiver_recv(queue) == [item |-> Head(queue), rest |-> Tail(queue)]

\* the RwLock of the vault: the tasks holding a read guard, the task holding
\* the write guard (0: none)
NoLock == [readers |-> {}, writer |-> 0]

RwLock_read(lock, p) == [lock EXCEPT !.readers = @ \cup {p}]

RwLock_write(lock, p) == [lock EXCEPT !.writer = p]

\* a variant in which the read guard outlives get_transaction_accounts
read_guard_kept(lock, p) == lock

\* the read guard is dropped when get_transaction_accounts returns
read_guard_dropped(lock, p) == [lock EXCEPT !.readers = @ \ {p}]

\* the write guard is dropped when save_accounts returns
write_guard_dropped(lock, p) == [lock EXCEPT !.writer = 0]

\* pc: where the task is in processor() and execute_transaction()
NoTask == [pc |-> "select", chan |-> 0, msg |-> NoMsg, read |-> <<>>, ws |-> <<>>, status |-> ""]

\* log: the reads of accounts and the ends of executions, in the order they happened
NoProcessors ==
    [task |-> [p \in Processors |-> NoTask],
     lock |-> NoLock,
     stop |-> [p \in Processors |-> FALSE],
     log  |-> <<>>]

TheVault == [files |-> files, index |-> index, trash |-> trash]

LastOp(op, key, slot, ok, err, status, stage, msg) ==
    [op |-> op, key |-> key, slot |-> slot, ok |-> ok, err |-> err,
     status |-> status, stage |-> stage, msg |-> msg, prisms |-> -1, removed |-> {}]

NoLast == LastOp("init", "", 0, TRUE, "", "", "", NoMsg)

\* no writer, no segment file, no flush under way, no record placed; clean:
\* no write has failed and no writer was started while a flush was under way
NoSlotWriter ==
    [w |-> NoWriter, files |-> EmptyFn, spawned |-> {}, placed |-> <<>>, nops |-> 0,
     clean |-> TRUE]

\* the file of the index or of the trash: absent, valid with a value, or torn
NoBlob == [state |-> "absent", value |-> EmptyFn]

NoDisk == [index |-> NoBlob, trash |-> NoBlob, up |-> TRUE, nops |-> 0]

\* no function called on its own
NoCall == [op |-> "none"]

\* metas: the metas of the instructions added so far; built: the transaction
\* was made by add calls that all succeeded; readyBefore: it was ready before
\* the last call; signs: the keys of the sign calls that succeeded since the
\* last add that succeeded
NoHistory ==
    [saved |-> [k \in WalletKeys |-> <<>>], tracked |-> TRUE,
     metas |-> {}, built |-> TRUE, readyBefore |-> FALSE, signs |-> <<>>]

InitBase ==
    /\ files = EmptyFn
    /\ index = EmptyFn
    /\ trash = EmptyFn
    /\ lastSaved = [k \in WalletKeys |-> -1]
    /\ last = NoLast
    /\ nops = 0
    /\ ntrx = 0
    /\ overflowChecks \in BOOLEAN
    /\ alive = TRUE
    /\ history = NoHistory
    /\ sw = NoSlotWriter
    /\ disk = NoDisk
    /\ trx = Transaction_new
    /\ tq = NoQueue
    /\ blk = NoBlocks
    /\ pr = NoProcessors

Init == InitBase /\ call = NoCall

\* Vault::save_account(key, &Wallet{prisms}, slot); ioOk: the write succeeds
SaveAccount(key, prisms, slot, ioOk) ==
    /\ nops < MaxOps
    /\ LET r == save_account(TheVault, key, prisms, slot, ioOk)
       IN  /\ files' = r.v.files
           /\ index' = r.v.index
           /\ trash' = r.v.trash
           /\ lastSaved' = IF r.ok THEN [lastSaved EXCEPT ![key] = prisms] ELSE lastSaved
           /\ last' = LastOp("save_account", key, slot, r.ok, r.err, "", "", NoMsg)
           /\ history' = IF r.ok
                         THEN [history EXCEPT !.saved[key] = Append(@, r.v.index[key])]
                         ELSE history
    /\ nops' = nops + 1
    /\ UNCHANGED <<ntrx, overflowChecks, alive, sw, disk, trx, tq, call, blk, pr>>

\* Vault::cleanup(current_slot)
Cleanup(current_slot) ==
    /\ nops < MaxOps
    /\ \E fileOrder \in OrdersOf(get_files_to_clean(trash)), keyOrder \in OrdersOf(WalletKeys) :
          LET r == cleanup(TheVault, current_slot, fileOrder, keyOrder)
          IN  /\ files' = r.v.files
              /\ index' = r.v.index
              /\ trash' = r.v.trash
              /\ last' = [LastOp("cleanup", "", current_slot, r.ok, r.err, "", "", NoMsg)
                              EXCEPT !.removed = r.removed]
    /\ history' = [history EXCEPT !.tracked = FALSE]
    /\ nops' = nops + 1
    /\ UNCHANGED <<lastSaved, ntrx, overflowChecks, alive, sw, disk, trx, tq, call, blk, pr>>

\* Vault::get(key), a read through a shared reference
Get(key) ==
    /\ nops < MaxOps
    /\ LET r == Vault_get(TheVault, key)
       IN  last' = [LastOp("get", key, 0, r.ok, r.err, "", "", NoMsg) EXCEPT !.prisms = r.prisms]
    /\ nops' = nops + 1
    /\ UNCHANGED <<files, index, trash, lastSaved, ntrx, overflowChecks, alive, history, sw,
                   disk, trx, tq, call, blk, pr>>

NextVault ==
    \/ \E key \in WalletKeys, prisms \in SeedPrisms, slot \in Slots, ioOk \in BOOLEAN :
          SaveAccount(key, prisms, slot, ioOk)
    \/ \E current_slot \in CleanupSlots : Cleanup(current_slot)
    \/ \E key \in WalletKeys : Get(key)

InitVault == Init /\ overflowChecks

SpecVault == InitVault /\ [][NextVault]_vars

\* the processor takes one transaction from the queue and executes it
ExecuteTransaction(msg, failAt) ==
    /\ ntrx < MaxTrx
    /\ alive
    /\ LET r == execute_transaction_inner(TheVault, msg, overflowChecks, failAt)
           SavedAt(k) == {i \in DOMAIN msg.accounts :
                            /\ msg.accounts[i].key = k
                            /\ is_writable(msg.accounts[i])
                            /\ Cardinality({j \in 1 .. i : is_writable(msg.accounts[j])}) <= r.nsaved}
       IN  /\ files' = r.v.files
           /\ index' = r.v.index
           /\ trash' = r.v.trash
           /\ lastSaved' = [k \in WalletKeys |->
                               IF SavedAt(k) # {} THEN r.ws[Max(SavedAt(k))] ELSE lastSaved[k]]
           /\ last' = LastOp("exec", get_payer(msg), CURRENT_SLOT, r.status = "Succeeded", r.err,
                             r.status, r.stage, msg)
           /\ alive' = (r.status # "Panicked")
    /\ history' = [history EXCEPT !.tracked = FALSE]
    /\ ntrx' = ntrx + 1
    /\ UNCHANGED <<nops, overflowChecks, sw, disk, trx, tq, call, blk, pr>>

\* the accounts are saved in slot 0 before the processor is started
Seed(key, prisms) ==
    /\ ntrx = 0
    /\ key \notin DOMAIN index
    /\ SaveAccount(key, prisms, 0, TRUE)

NextExec ==
    \/ \E key \in WalletKeys, prisms \in SeedPrisms : Seed(key, prisms)
    \/ \E msg \in AdmittedMessages, failAt \in FailPoints : ExecuteTransaction(msg, failAt)

SpecExec == Init /\ [][NextExec]_vars

\* ------------------------------------------------------ slot writer actions
VaultUnchanged ==
    UNCHANGED <<files, index, trash, lastSaved, last, nops, ntrx, overflowChecks, alive, history,
                disk, trx, tq, call, blk, pr>>

WriterSlots == {0, 1}

\* SlotWriter::new(slot), once the previous writer has been dropped
WriterNew(slot) ==
    /\ sw.nops < MaxWriterOps
    /\ ~sw.w.open
    /\ sw' = [sw EXCEPT !.w = SlotWriter_new(sw.files, slot), !.nops = @ + 1,
                        !.clean = @ /\ sw.spawned = {}]
    /\ VaultUnchanged

\* SlotWriter::append(Wallet{prisms}); ioOk: the write of a flush succeeds
WriterAppend(prisms, ioOk) ==
    /\ sw.nops < MaxWriterOps
    /\ sw.w.open
    /\ LET r == SlotWriter_append(sw.w, sw.files, prisms, ioOk)
       IN  sw' = [sw EXCEPT !.w = r.w, !.files = r.fs, !.nops = @ + 1,
                            !.placed = Append(@, r.loc), !.clean = @ /\ ioOk]
    /\ VaultUnchanged

\* SlotWriter::flush()
WriterFlush(ioOk) ==
    /\ sw.nops < MaxWriterOps
    /\ sw.w.open
    /\ LET r == flush(sw.w, sw.files, ioOk)
       IN  sw' = [sw EXCEPT !.w = r.w, !.files = r.fs, !.nops = @ + 1, !.clean = @ /\ ioOk]
    /\ VaultUnchanged

\* Drop for SlotWriter: the writer is taken and its flush is spawned as a task
WriterDrop ==
    /\ sw.nops < MaxWriterOps
    /\ sw.w.open
    /\ sw' = [sw EXCEPT !.w = NoWriter, !.spawned = @ \cup {sw.w}, !.nops = @ + 1]
    /\ VaultUnchanged

\* a flush spawned by a drop runs
SpawnedFlush(ioOk) ==
    /\ \E w \in sw.spawned :
          sw' = [sw EXCEPT !.files = flush(w, sw.files, ioOk).fs, !.spawned = @ \ {w},
                           !.clean = @ /\ ioOk]
    /\ VaultUnchanged

NextWriter ==
    \/ \E slot \in WriterSlots : WriterNew(slot)
    \/ \E prisms \in SeedPrisms, ioOk \in BOOLEAN : WriterAppend(prisms, ioOk)
    \/ \E ioOk \in BOOLEAN : WriterFlush(ioOk)
    \/ WriterDrop
    \/ \E ioOk \in BOOLEAN : SpawnedFlush(ioOk)

SpecWriter == InitVault /\ [][NextWriter]_vars

\* ------------------------------------------------- persist, crash and reload
WriteOutcomes == {"done", "failed", "torn"}

\* Vault::save()
Save(outcome1, outcome2) ==
    /\ disk.up
    /\ disk.nops < MaxDiskOps
    /\ LET r == Vault_save(TheVault, disk, outcome1, outcome2)
       IN  /\ disk' = [r.disk EXCEPT !.nops = @ + 1]
           /\ last' = LastOp("save", "", 0, r.ok, IF r.ok THEN "" ELSE "FileSystem", "", "", NoMsg)
    /\ UNCHANGED <<files, index, trash, lastSaved, nops, ntrx, overflowChecks, alive, history, sw, trx, tq, call, blk, pr>>

\* the process stops; what was not persisted is lost
Crash ==
    /\ disk.up
    /\ disk.nops < MaxDiskOps
    /\ disk' = [disk EXCEPT !.up = FALSE, !.nops = @ + 1]
    /\ last' = LastOp("crash", "", 0, TRUE, "", "", "", NoMsg)
    /\ UNCHANGED <<files, index, trash, lastSaved, nops, ntrx, overflowChecks, alive, history, sw, trx, tq, call, blk, pr>>

\* Vault::load_or_create() in a new process
Reload ==
    /\ ~disk.up
    /\ LET r == Vault_load_or_create(disk)
       IN  /\ index' = IF r.ok THEN r.index ELSE EmptyFn
           /\ trash' = IF r.ok THEN r.trash ELSE EmptyFn
           /\ last' = LastOp("load_or_create", "", 0, r.ok, r.err, "", "", NoMsg)
           /\ disk' = [disk EXCEPT !.up = r.ok]
    /\ history' = [history EXCEPT !.tracked = FALSE]
    /\ UNCHANGED <<files, lastSaved, nops, ntrx, overflowChecks, alive, sw, trx, tq, call, blk, pr>>

ReloadKey == "A"

ReloadPrisms == 500000

\* save_account and cleanup of the running process
RunningSaveAccount(slot) == disk.up /\ SaveAccount(ReloadKey, ReloadPrisms, slot, TRUE)

RunningCleanup(current_slot) == disk.up /\ Cleanup(current_slot)

NextReload ==
    \/ \E slot \in Slots : RunningSaveAccount(slot)
    \/ \E current_slot \in CleanupSlots : RunningCleanup(current_slot)
    \/ \E outcome1, outcome2 \in WriteOutcomes : Save(outcome1, outcome2)
    \/ Crash
    \/ Reload

SpecReload == InitVault /\ [][NextReload]_vars

\* ------------------------------------------------------ transaction actions
OthersUnchanged ==
    UNCHANGED <<files, index, trash, lastSaved, nops, ntrx, overflowChecks, alive, sw, disk, tq, call, blk, pr>>

\* Transaction::add(instructions)
TrxAdd(instructions) ==
    /\ Len(trx.message.instructions) + Len(instructions) <= MaxInstr
    /\ LET r == Transaction_add(trx, instructions)
       IN  /\ trx' = r.trx
           /\ last' = LastOp("add", "", 0, r.ok, "", "", "", r.trx.message)
           /\ history' = [history EXCEPT !.metas = IF r.ok THEN @ \cup MetasOf(instructions) ELSE @,
                                         !.built = @ /\ r.ok,
                                         !.readyBefore = is_ready(trx),
                                         !.signs = IF r.ok THEN <<>> ELSE @]
    /\ OthersUnchanged

\* Transaction::sign(&keypair)
TrxSign(key) ==
    /\ Len(trx.signatures) < MaxSigs
    /\ LET r == Transaction_sign(trx, key)
       IN  /\ trx' = r.trx
           /\ last' = LastOp("sign", key, 0, r.ok, r.err, "", "", r.trx.message)
           /\ history' = [history EXCEPT !.readyBefore = is_ready(trx),
                                         !.signs = IF r.ok THEN Append(@, key) ELSE @]
    /\ OthersUnchanged

\* borsh::from_slice: a transaction as it is received
TrxDeserialize ==
    /\ trx = Transaction_new
    /\ \E t \in ReceivedTransactions : trx' = t
    /\ last' = LastOp("from_slice", "", 0, TRUE, "", "", "", NoMsg)
    /\ history' = [history EXCEPT !.built = FALSE, !.readyBefore = FALSE]
    /\ OthersUnchanged

NextTrx ==
    \/ \E instructions \in InstructionLists : TrxAdd(instructions)
    \/ \E key \in WalletKeys : TrxSign(key)
    \/ TrxDeserialize

SpecTrx == InitVault /\ [][NextTrx]_vars

\* ---------------------------------------------------- queue and processor
\* register_transaction(trx) by a submitter
Register(t) ==
    /\ Len(tq.chans) < MaxReg
    /\ trx' = t
    /\ LET r == register_transaction(tq, t)
       IN  /\ tq' = r.q
           /\ last' = LastOp("register_transaction", "", 0, r.ok, r.err, "", "", t.message)
    /\ UNCHANGED <<files, index, trash, lastSaved, nops, ntrx, overflowChecks, alive, history,
                   sw, disk, call, blk, pr>>

\* the submitter drops the receiver that register_transaction gave it
DropReceiver(c) ==
    /\ c \in DOMAIN tq.chans
    /\ tq.chans[c].held
    /\ tq' = [tq EXCEPT !.chans[c].held = FALSE]
    /\ last' = LastOp("drop_receiver", "", 0, TRUE, "", "", "", NoMsg)
    /\ UNCHANGED <<files, index, trash, lastSaved, nops, ntrx, overflowChecks, alive, history,
                   sw, disk, trx, call, blk, pr>>

\* one turn of the processor loop: queue.recv() and execute_transaction
Process(failAt) ==
    /\ alive
    /\ ntrx < MaxTrx
    /\ tq.queue # <<>>
    /\ \E head \in {Head(tq.queue)} :
       \E r \in {execute_transaction(TheVault, head.trx, tq.chans[head.chan],
                                     overflowChecks, failAt)} :
           /\ files' = r.v.files
           /\ index' = r.v.index
           /\ trash' = r.v.trash
           /\ alive' = ~r.panicked
           /\ tq' = [queue    |-> Tail(tq.queue),
                     chans    |-> [tq.chans EXCEPT ![head.chan] = r.chan],
                     executed |-> Append(tq.executed, [chan |-> head.chan, result |-> r.result])]
           /\ last' = LastOp("exec", get_payer(head.trx.message), CURRENT_SLOT,
                             r.result = "Succeeded", "", r.result, "", head.trx.message)
    /\ ntrx' = ntrx + 1
    /\ history' = [history EXCEPT !.tracked = FALSE]
    /\ UNCHANGED <<lastSaved, nops, overflowChecks, sw, disk, trx, call, blk, pr>>

NextQueue ==
    \/ \E key \in WalletKeys, prisms \in SeedPrisms : Seed(key, prisms)
    \/ \E t \in SubmittedTransactions : Register(t)
    \/ \E c \in 1 .. MaxReg : DropReceiver(c)
    \/ \E failAt \in FailPoints : Process(failAt)

SpecQueue == Init /\ [][NextQueue]_vars

\* ------------------------------------------------------- calls on their own
StateUnchanged ==
    UNCHANGED <<files, index, trash, lastSaved, last, nops, ntrx, overflowChecks, alive, history,
                sw, disk, trx, tq, blk, pr>>

\* the metas the constructors signing, wallet and program give
BuiltMetas ==
    {AccountMeta_signing(k, w) : k \in WalletKeys, w \in BOOLEAN}
        \cup {AccountMeta_wallet(k, w) : k \in WalletKeys, w \in BOOLEAN}
        \cup {AccountMeta_program(k) : k \in {SYSTEM_PROGRAM, TESTING_PROGRAM}}

InitMerge ==
    /\ InitBase
    /\ overflowChecks
    /\ call \in {[op |-> "metas", a |-> a, b |-> b] : a \in BuiltMetas, b \in BuiltMetas}

\* a.merge(&b), and b.merge(&a) on copies of the two metas
Merge ==
    /\ call.op = "metas"
    /\ call' = [op |-> "merge", a |-> call.a, b |-> call.b,
                ab |-> AccountMeta_merge(call.a, call.b),
                ba |-> AccountMeta_merge(call.b, call.a)]
    /\ StateUnchanged

\* a.merge(&a_copy)
MergeSelf ==
    /\ call.op = "metas"
    /\ call' = [op |-> "merge", a |-> call.a, b |-> call.a,
                ab |-> AccountMeta_merge(call.a, call.a),
                ba |-> AccountMeta_merge(call.a, call.a)]
    /\ StateUnchanged

NextMerge == Merge \/ MergeSelf

SpecMerge == InitMerge /\ [][NextMerge]_vars

\* balances and amounts around zero, the fee and the largest u64
EdgePrisms == {0, 1, TRANSACTION_FEE, 500000, Modulus - TRANSACTION_FEE, Modulus - 1}

InitAccount ==
    /\ InitBase
    /\ overflowChecks
    /\ call \in {[op |-> "account", meta |-> AccountMeta_wallet("A", w), prisms |-> b, amount |-> n] :
                    w \in BOOLEAN, b \in EdgePrisms, n \in EdgePrisms}

\* TransactionAccount::new(meta, wallet).add_prisms(amount)
AddPrisms ==
    /\ call.op = "account"
    /\ call' = [op |-> "add_prisms", meta |-> call.meta, prisms |-> call.prisms,
                amount |-> call.amount,
                res |-> add_prisms(<<call.prisms>>, <<call.meta>>, 1, call.amount)]
    /\ StateUnchanged

\* TransactionAccount::new(meta, wallet).sub_prisms(amount)
SubPrisms ==
    /\ call.op = "account"
    /\ call' = [op |-> "sub_prisms", meta |-> call.meta, prisms |-> call.prisms,
                amount |-> call.amount,
                res |-> sub_prisms(<<call.prisms>>, <<call.meta>>, 1, call.amount)]
    /\ StateUnchanged

NextAccount == AddPrisms \/ SubPrisms

SpecAccount == InitAccount /\ [][NextAccount]_vars

\* the accounts of a transaction: wallets A and B and the program, their
\* balances, and the positions an instruction gives to the program
TransferMetas ==
    {<<[key |-> "A", kind |-> k1, writable |-> w1], [key |-> "B", kind |-> k2, writable |-> w2],
       AccountMeta_program(SYSTEM_PROGRAM)>> :
        k1 \in {"Signing", "Wallet"}, k2 \in {"Signing", "Wallet"}, w1 \in BOOLEAN, w2 \in BOOLEAN}

TransferBalances == {<<a, b, 1>> : a \in {0, 500000, Modulus - 1}, b \in {0, 500000, Modulus - 1}}

TransferIds == {<<>>, <<1>>, <<2>>, <<1, 2>>, <<2, 1>>, <<1, 1>>, <<1, 2, 3>>}

InitSystem ==
    /\ InitBase
    /\ overflowChecks
    /\ call \in {[op |-> "accounts", metas |-> metas, ws |-> ws, ids |-> ids, amount |-> amount] :
                    metas \in TransferMetas, ws \in TransferBalances, ids \in TransferIds,
                    amount \in {0, 500000}}

\* system::execute_instruction(accounts, Transfer(amount))
Transfer ==
    /\ call.op = "accounts"
    /\ call' = [op |-> "transfer", metas |-> call.metas, ws |-> call.ws, ids |-> call.ids,
                amount |-> call.amount,
                res |-> transfer(call.ws, call.metas, call.ids, call.amount)]
    /\ StateUnchanged

NextSystem == Transfer

SpecSystem == InitSystem /\ [][NextSystem]_vars

\* ------------------------------------------------------------ block actions
BlockOthersUnchanged ==
    UNCHANGED <<files, index, trash, lastSaved, last, nops, ntrx, overflowChecks, alive, history,
                sw, disk, trx, tq, call, pr>>

\* Block::add_transaction(sig); round: the number of blocks finalized before
AddTransaction(sig) ==
    /\ blk.nops < MaxBlockOps
    /\ blk' = [blk EXCEPT !.block = Block_add_transaction(@, sig),
                          !.added = Append(@, [sig |-> sig, round |-> Len(blk.chain)]),
                          !.nops = @ + 1]
    /\ BlockOthersUnchanged

\* Block::finalize()
Finalize ==
    /\ blk.nops < MaxBlockOps
    /\ LET r == Block_finalize(blk.block)
       IN  blk' = [blk EXCEPT !.block = r.block, !.chain = Append(@, r.res), !.nops = @ + 1]
    /\ BlockOthersUnchanged

NextBlock ==
    \/ \E sig \in BlockSignatures : AddTransaction(sig)
    \/ Finalize

SpecBlock == InitVault /\ [][NextBlock]_vars

\* --------------------------------------------- the processor step by step
\* the balances a get of every wallet key gives
Balances(v) == [k \in WalletKeys |-> Vault_get(v, k).prisms]

ProcOthersUnchanged ==
    UNCHANGED <<lastSaved, last, nops, ntrx, overflowChecks, alive, history, sw, disk, trx,
                call, blk>>

\* the end of an execution, with the status to send
Finished(p, status, ws, v) ==
    [pr EXCEPT !.task[p].pc = IF status = "Panicked" THEN "panicked" ELSE "send",
               !.task[p].status = status,
               !.task[p].ws = ws,
               !.log = Append(@, [ev |-> "done", chan |-> pr.task[p].chan, p |-> p,
                                  status |-> status, bal |-> Balances(v)])]

\* the accounts are saved before any transaction is registered
Fund(key, prisms) ==
    /\ tq.chans = <<>>
    /\ Seed(key, prisms)

\* register_transaction of a transaction that is ready
Submit(t) ==
    /\ Len(tq.chans) < MaxSubmitted
    /\ Register(t)

\* the owner of the stop_control sender of the task sends ()
SendStop(p) ==
    /\ ~pr.stop[p]
    /\ pr' = [pr EXCEPT !.stop[p] = TRUE]
    /\ UNCHANGED <<files, index, trash, tq>>
    /\ ProcOthersUnchanged

\* select!: the stop_control branch, then break
Exit(p) ==
    /\ pr.task[p].pc = "select"
    /\ pr.stop[p]
    /\ pr' = [pr EXCEPT !.task[p].pc = "exited"]
    /\ UNCHANGED <<files, index, trash, tq>>
    /\ ProcOthersUnchanged

\* select!: the queue.recv() branch
Recv(p) ==
    /\ pr.task[p].pc = "select"
    /\ tq.queue # <<>>
    /\ \E r \in {Receiver_recv(tq.queue)} :
           /\ tq' = [tq EXCEPT !.queue = r.rest]
           /\ pr' = [pr EXCEPT !.task[p] = [NoTask EXCEPT !.pc = "read", !.chan = r.item.chan,
                                                          !.msg = r.item.trx.message]]
    /\ UNCHANGED <<files, index, trash>>
    /\ ProcOthersUnchanged

\* get_transaction_accounts: vault.read().await
LockRead(p) ==
    /\ pr.task[p].pc = "read"
    /\ pr.lock.writer = 0
    /\ pr' = [pr EXCEPT !.task[p].pc = "reading", !.lock = RwLock_read(@, p)]
    /\ UNCHANGED <<files, index, trash, tq>>
    /\ ProcOthersUnchanged

\* get_transaction_accounts: the gets, then the return that drops the guard
ReadAccounts(p) ==
    /\ pr.task[p].pc = "reading"
    /\ \E got \in {get_transaction_accounts(TheVault, pr.task[p].msg.accounts)} :
           pr' = [pr EXCEPT !.task[p].pc = IF got.ok THEN "run" ELSE "send",
                            !.task[p].status = IF got.ok THEN "" ELSE "Failed",
                            !.task[p].read = got.ws,
                            !.task[p].ws = got.ws,
                            !.lock = read_guard_dropped(@, p),
                            !.log = Append(@, [ev |-> "read", chan |-> pr.task[p].chan, p |-> p,
                                               status |-> "", bal |-> Balances(TheVault)])]
    /\ UNCHANGED <<files, index, trash, tq>>
    /\ ProcOthersUnchanged

\* execute_transaction_inner from the fee debit to the conservation check
RunTransaction(p) ==
    /\ pr.task[p].pc = "run"
    /\ \E t \in {pr.task[p]} :
       \E r \in {execute_before_commit(TheVault, t.msg, overflowChecks, t.ws,
                                        position(t.msg.accounts, get_payer(t.msg)))} :
           /\ UNCHANGED <<files, index, trash>>
           /\ pr' = IF r.status = "Run"
                    THEN [pr EXCEPT !.task[p].pc = "commit", !.task[p].ws = r.ws]
                    ELSE Finished(p, r.status, r.ws, TheVault)
    /\ UNCHANGED tq
    /\ ProcOthersUnchanged

\* save_accounts: vault.write().await
LockWrite(p) ==
    /\ pr.task[p].pc = "commit"
    /\ pr.lock.writer = 0
    /\ pr.lock.readers = {}
    /\ pr' = [pr EXCEPT !.task[p].pc = "committing", !.lock = RwLock_write(@, p)]
    /\ UNCHANGED <<files, index, trash, tq>>
    /\ ProcOthersUnchanged

\* save_accounts: the save_account calls, then the return that drops the guard
SaveAccounts(p) ==
    /\ pr.task[p].pc = "committing"
    /\ \E t \in {pr.task[p]} :
       \E c \in {commit(TheVault, t.msg, t.ws, 0)} :
           /\ files' = c.v.files
           /\ index' = c.v.index
           /\ trash' = c.v.trash
           /\ pr' = [Finished(p, c.status, t.ws, c.v) EXCEPT !.lock = write_guard_dropped(@, p)]
    /\ UNCHANGED tq
    /\ ProcOthersUnchanged

\* execute_transaction: tx_status.send(status).await.unwrap()
SendStatus(p) ==
    /\ pr.task[p].pc = "send"
    /\ \E t \in {pr.task[p]} :
       \E s \in {Status_send(tq.chans[t.chan], t.status)} :
           /\ tq' = [tq EXCEPT !.chans[t.chan] = s.chan,
                               !.executed = Append(@, [chan |-> t.chan, result |-> t.status])]
           /\ pr' = [pr EXCEPT !.task[p].pc = IF s.ok THEN "select" ELSE "panicked"]
    /\ UNCHANGED <<files, index, trash>>
    /\ ProcOthersUnchanged

\* the transactions submitted to the processors: ready transfers from A
ProcessedTransactions ==
    {sign_all(Transaction_add(Transaction_new, <<system_transfer("A", to, amount)>>).trx, <<"A">>) :
        to \in WalletKeys, amount \in Amounts}

TaskStep(p) ==
    \/ SendStop(p)
    \/ Exit(p)
    \/ Recv(p)
    \/ LockRead(p)
    \/ ReadAccounts(p)
    \/ RunTransaction(p)
    \/ LockWrite(p)
    \/ SaveAccounts(p)
    \/ SendStatus(p)

Environment ==
    \/ \E key \in WalletKeys, prisms \in SeedPrisms : Fund(key, prisms)
    \/ \E t \in ProcessedTransactions : Submit(t)
    \/ \E c \in 1 .. MaxSubmitted : DropReceiver(c)

\* one processor task
NextProcessor == Environment \/ TaskStep(1)

SpecProcessor == InitVault /\ [][NextProcessor]_vars

\* several processor tasks on the same queue and the same vault
NextProcessors == Environment \/ \E p \in Processors : TaskStep(p)

SpecProcessors == InitVault /\ [][NextProcessors]_vars

\* ------------------------------------------------- compiling instructions
CompiledKeys == <<"A", "B", "C", "D", "E">>

\* instructions of the system program on one or two writable wallets
CompiledInstructions ==
    {Instruction_new(SYSTEM_PROGRAM, <<AccountMeta_wallet(CompiledKeys[i], TRUE)>>, 1) :
        i \in DOMAIN CompiledKeys}
    \cup {Instruction_new(SYSTEM_PROGRAM,
                          <<AccountMeta_wallet(CompiledKeys[p[1]], TRUE),
                            AccountMeta_wallet(CompiledKeys[p[2]], TRUE)>>, 1) :
            p \in {q \in (DOMAIN CompiledKeys) \X (DOMAIN CompiledKeys) : q[1] < q[2]}}

\* Message::new
InitCompile ==
    /\ InitBase
    /\ overflowChecks
    /\ call = [op |-> "message", msg |-> Message_new]

\* message.add_instruction(&instruction)
AddInstruction(instruction) ==
    /\ call.op \in {"message", "add_instruction"}
    /\ Len(call.msg.instructions) < MaxCompiled
    /\ LET r == add_instruction(call.msg, instruction)
       IN  call' = [op |-> "add_instruction", msg |-> r.msg, ok |-> r.ok,
                    instruction |-> instruction]
    /\ StateUnchanged

NextCompile == \E instruction \in CompiledInstructions : AddInstruction(instruction)

SpecCompile == InitCompile /\ [][NextCompile]_vars

\* ------------------------------------------------- the instruction loop
\* the account lists of the messages that are run: one built by add, and one
\* as it can be received, with two metas for the key B
RunAccounts ==
    {<<AccountMeta_signing("A", TRUE), AccountMeta_wallet("B", TRUE),
       AccountMeta_program(SYSTEM_PROGRAM)>>,
     <<AccountMeta_signing("A", TRUE), AccountMeta_wallet("B", TRUE),
       AccountMeta_wallet("B", TRUE), AccountMeta_program(SYSTEM_PROGRAM)>>}

\* one or more transfers between the wallets of the list
RunInstructionLists(accounts) ==
    UNION {[1 .. n -> {CompiledInstruction_new(Len(accounts), amount, ids) :
                        ids \in IdLists(Len(accounts) - 1), amount \in Amounts}] :
            n \in 1 .. MaxInstr}

\* the messages of transactions that are ready once the payer has signed
RunMessages ==
    {msg \in UNION {{[instructions |-> instructions, accounts |-> accounts] :
                        instructions \in RunInstructionLists(accounts)} :
                    accounts \in RunAccounts} :
        is_ready(sign_all([signatures |-> <<>>, message |-> msg], <<"A">>))}

\* the balances of A and B in the vault
RunBalances == {<<a, b>> : a \in {TRANSACTION_FEE, 1000000}, b \in {0, 500000}}

\* the wallets read for the metas, the fee debited from the payer's
WorkingSet(msg, balances) ==
    [i \in DOMAIN msg.accounts |->
        IF msg.accounts[i].key = "A"
        THEN IF i = position(msg.accounts, get_payer(msg))
             THEN FeeDebit(balances[1]) ELSE balances[1]
        ELSE IF msg.accounts[i].key = "B" THEN balances[2] ELSE 0]

\* the results of the loop on the first n instructions, for n from 0 on
RECURSIVE StepsOf(_, _, _, _)
StepsOf(ws, msg, n, steps) ==
    IF n > Len(msg.instructions)
    THEN steps
    ELSE StepsOf(ws, msg, n + 1,
                 Append(steps, run_instructions(ws, msg.accounts,
                                                SubSeq(msg.instructions, 1, n), 1)))

InitRun ==
    /\ InitBase
    /\ overflowChecks
    /\ call \in {[op |-> "working_set", msg |-> msg, ws |-> WorkingSet(msg, balances)] :
                    msg \in RunMessages, balances \in RunBalances}

\* the loop over the instructions of execute_transaction_inner
RunInstructions ==
    /\ call.op = "working_set"
    /\ call' = [op |-> "run", msg |-> call.msg, ws |-> call.ws,
                steps |-> StepsOf(call.ws, call.msg, 0, <<>>),
                result |-> run_instructions(call.ws, call.msg.accounts,
                                            call.msg.instructions, 1)]
    /\ StateUnchanged

NextRun == RunInstructions

SpecRun == InitRun /\ [][NextRun]_vars

\* ------------------------------------------------------------------ claims
TheVaultNext == [files |-> files', index |-> index', trash |-> trash']

Balance(v, key) == Vault_get(v, key).prisms

MessageKeys(msg) == {msg.accounts[i].key : i \in DOMAIN msg.accounts}

RECURSIVE SumOver(_, _)
SumOver(v, keys) ==
    IF keys = {} THEN 0
    ELSE LET k == CHOOSE x \in keys : TRUE IN Balance(v, k) + SumOver(v, keys \ {k})

SameVault(v, w) ==
    /\ v.files = w.files
    /\ v.index = w.index
    /\ v.trash = w.trash
    /\ \A k \in WalletKeys \cup {SYSTEM_PROGRAM, TESTING_PROGRAM} : Vault_get(v, k) = Vault_get(w, k)

InTrash(tr, loc) ==
    /\ AccountFile_from_loc(loc) \in DOMAIN tr
    /\ InSeq(Loc_from_loc(loc), tr[AccountFile_from_loc(loc)])

Executed == last'.op = "exec" /\ ntrx' = ntrx + 1

\* C1: every committed transaction whose payer can pay the fee lowers the
\* sum of the persisted balances of the accounts of its message by exactly
\* TRANSACTION_FEE
C1_FeeCharged ==
    [][(Executed /\ last'.status = "Succeeded"
                 /\ Balance(TheVault, last'.key) >= TRANSACTION_FEE) =>
          SumOver(TheVaultNext, MessageKeys(last'.msg))
              = SumOver(TheVault, MessageKeys(last'.msg)) - TRANSACTION_FEE]_vars

\* C2: a transaction that fails at the fee debit, in the dispatch of an
\* instruction or at the conservation check leaves files, index, trash and
\* every get(k) as they were
C2_FailedLeavesVault ==
    [][(Executed /\ last'.status # "Succeeded"
                 /\ last'.stage \in {"fee", "dispatch", "conservation"}) =>
          SameVault(TheVault, TheVaultNext)]_vars

\* a Transfer(500_000) from a payer holding 500_000 has failed and the payer still holds 500_000
C2_Witness ==
    /\ last.op = "exec"
    /\ last.status = "Failed"
    /\ last.stage = "dispatch"
    /\ last.err = "ArithmeticOverflow"
    /\ last.key \in DOMAIN index
    /\ Balance(TheVault, last.key) = 500000

\* C3: when the payer holds less than TRANSACTION_FEE the transaction is
\* reported Failed, the processor keeps running and nothing is committed
\* (so no balance wraps around)
C3_FeeUnderflowFails ==
    [][(Executed /\ Balance(TheVault, last'.key) < TRANSACTION_FEE) =>
          /\ last'.status = "Failed"
          /\ alive'
          /\ SameVault(TheVault, TheVaultNext)]_vars

IsBurn(msg) ==
    \E i \in DOMAIN msg.instructions :
        msg.accounts[msg.instructions[i].program_account_id].key = TESTING_PROGRAM

\* C4: a BurnPrisms transaction of a payer that can afford the fee and the
\* amount fails with PrismTotalChanged and leaves the vault unchanged
C4_BurnFailsConservation ==
    [][(Executed /\ IsBurn(last'.msg)
                 /\ Balance(TheVault, last'.key)
                        >= TRANSACTION_FEE + last'.msg.instructions[1].data) =>
          /\ last'.err = "PrismTotalChanged"
          /\ SameVault(TheVault, TheVaultNext)]_vars

\* C5: when a save fails during the commit of a transaction whose payer can
\* pay the fee, no account of the transaction has a new location in the index
C5_CommitAllOrNothing ==
    [][(Executed /\ last'.stage = "commit" /\ last'.status = "Failed"
                 /\ Balance(TheVault, last'.key) >= TRANSACTION_FEE) =>
          index' = index]_vars

\* C6: a transaction changes neither the index entry nor the value returned
\* by get of an account whose meta is not writable, and does not put its
\* location in the trash; a committed transaction installs a new location
\* for every account whose meta is writable
C6_OnlyWritableSaved ==
    [][Executed =>
          \A i \in DOMAIN last'.msg.accounts :
              LET meta == last'.msg.accounts[i]
                  k    == meta.key
              IN  IF ~meta.writable
                  THEN /\ (k \in DOMAIN index') = (k \in DOMAIN index)
                       /\ k \in DOMAIN index => /\ index'[k] = index[k]
                                                /\ InTrash(trash', index[k]) => InTrash(trash, index[k])
                       /\ Vault_get(TheVaultNext, k) = Vault_get(TheVault, k)
                  ELSE last'.status = "Succeeded" =>
                          /\ k \in DOMAIN index'
                          /\ k \in DOMAIN index => index'[k] # index[k]]_vars

\* a committed transaction with a read-only wallet account that is in the index
C6_Witness ==
    /\ last.op = "exec"
    /\ last.status = "Succeeded"
    /\ \E i \in DOMAIN last.msg.accounts :
          /\ ~last.msg.accounts[i].writable
          /\ last.msg.accounts[i].key \in DOMAIN index
    /\ \E i \in DOMAIN last.msg.accounts :
          /\ last.msg.accounts[i].writable
          /\ last.msg.accounts[i].key \in DOMAIN index

\* C7: get(key) returns the wallet of the most recent successful save_account of the key
C7_GetReturnsLastSaved ==
    \A k \in WalletKeys :
        lastSaved[k] # -1 => Vault_get(TheVault, k) = [ok |-> TRUE, err |-> "", prisms |-> lastSaved[k]]

\* C8: every key of the index maps to a location inside an existing segment file
C8_IndexPointsIntoFiles ==
    \A k \in DOMAIN index :
        /\ AccountFile_from_loc(index[k]) \in DOMAIN files
        /\ index[k].offset + index[k].size <= FileLen(files, AccountFile_from_loc(index[k]))

\* C9: cleanup(s) removes no segment file of slot s, changes none of them
\* and leaves the trash entries of the files of slot s in place
C9_CurrentSlotKept ==
    [][(last'.op = "cleanup" /\ nops' = nops + 1) =>
          /\ \A f \in DOMAIN files :
                f.slot = last'.slot => f \in DOMAIN files' /\ files'[f] = files[f]
          /\ \A f \in DOMAIN trash :
                f.slot = last'.slot => f \in DOMAIN trash' /\ trash'[f] = trash[f]]_vars

\* a cleanup(s) has run while a file of slot s had enough trashed bytes to be cleaned
C9_Witness ==
    /\ last.op = "cleanup"
    /\ last.ok
    /\ \E f \in get_files_to_clean(trash) : f.slot = last.slot /\ f \in DOMAIN files

\* C10: a second cleanup(s) right after a successful cleanup(s) changes
\* neither the index, nor the trash, nor the segment files
C10_CleanupIdempotent ==
    (last.op = "cleanup" /\ last.ok) =>
        \A fileOrder \in OrdersOf(get_files_to_clean(trash)), keyOrder \in OrdersOf(WalletKeys) :
            cleanup(TheVault, last.slot, fileOrder, keyOrder).v = TheVault

\* a successful cleanup has removed the first segment of a slot and relocated an account
C10_Witness ==
    /\ last.op = "cleanup"
    /\ last.ok
    /\ \E k \in DOMAIN index :
          /\ index[k].id > 0
          /\ AccountFile(index[k].slot, 0) \notin DOMAIN files
          /\ AccountFile_from_loc(index[k]) \in DOMAIN files

TrashLocs(tr) ==
    UNION {{[slot |-> f.slot, id |-> f.id, offset |-> tr[f][i].offset, size |-> tr[f][i].size] :
               i \in DOMAIN tr[f]} : f \in DOMAIN tr}

CleanupStep == last'.op = "cleanup" /\ nops' = nops + 1

SaveStep == last'.op = "save_account" /\ nops' = nops + 1

\* the files of the trash, not of slot s, whose ranges sum to half a segment or more
OverThreshold(tr, s) ==
    {f \in DOMAIN tr : f.slot # s /\ TrashedBytes(tr, f) >= MAX_ACCOUNT_FILE_SIZE \div 2}

C12_CleanupKeepsAccounts ==
    [][(CleanupStep /\ last'.ok) =>
          /\ DOMAIN index' = DOMAIN index
          /\ \A k \in WalletKeys : Vault_get(TheVaultNext, k) = Vault_get(TheVault, k)
          /\ \A k \in DOMAIN index :
                AccountFile_from_loc(index[k]) \in last'.removed =>
                    index'[k].slot = index[k].slot]_vars

\* C13: while only save_account has written the vault, after n successful
\* saves of a key the index holds its n-th location and the trash holds
\* exactly the previous locations of the keys
C13_TrashHoldsPrevious ==
    history.tracked =>
        /\ \A k \in WalletKeys :
              Len(history.saved[k]) >= 1 => index[k] = history.saved[k][Len(history.saved[k])]
        /\ TrashLocs(trash) =
              UNION {{history.saved[k][i] : i \in 1 .. (Len(history.saved[k]) - 1)} :
                        k \in WalletKeys}

\* C14: no trash list holds the same (offset, size) range twice, and a
\* save_account whose old location is already in the trash fails with
\* DuplicateLocationInTrash and leaves the vault as it was
C14_NoDuplicateInTrash ==
    [][/\ \A f \in DOMAIN trash' :
             \A i, j \in DOMAIN trash'[f] : i # j => trash'[f][i] # trash'[f][j]
       /\ (SaveStep /\ last'.key \in DOMAIN index /\ InTrash(trash, index[last'.key])) =>
             /\ ~last'.ok
             /\ last'.err = "DuplicateLocationInTrash"
             /\ SameVault(TheVault, TheVaultNext)]_vars

\* a save_account has been refused because the old location was already in the trash
C14_Witness ==
    /\ last.op = "save_account"
    /\ last.err = "DuplicateLocationInTrash"
    /\ InTrash(trash, index[last.key])

\* C17: get of a key that is not in the index returns a wallet of 0 prisms
\* and leaves index, files and trash as they were; a key enters the index
\* only by a successful save_account of that key
C17_GetCreatesNothing ==
    [][/\ (last'.op = "get" /\ nops' = nops + 1 /\ last'.key \notin DOMAIN index) =>
             /\ last'.ok
             /\ last'.prisms = 0
             /\ SameVault(TheVault, TheVaultNext)
             /\ last'.key \notin DOMAIN index'
       /\ \A k \in DOMAIN index' \ DOMAIN index :
             last'.op = "save_account" /\ last'.ok /\ last'.key = k]_vars

\* get has answered 0 for a key that is not in the index while another key is
C17_Witness ==
    /\ last.op = "get"
    /\ last.key \notin DOMAIN index
    /\ DOMAIN index # {}
    /\ last.ok
    /\ last.prisms = 0

\* the locations returned by the successive appends to a slot
PlacedIn(slot) ==
    LET InSlot(loc) == loc.slot = slot IN SelectSeq(sw.placed, InSlot)

\* C15: while no write has failed and no writer was started before the
\* flush of the previous one, of two successive appends to a slot the second
\* is placed at offset 0 of the next segment when the first has brought its
\* segment to MAX_ACCOUNT_FILE_SIZE or more, and right behind the first
\* otherwise; no record is placed at or beyond the threshold
C15_AppendPlacement ==
    sw.clean => \A slot \in WriterSlots :
        LET p == PlacedIn(slot)
        IN  /\ \A i \in 1 .. (Len(p) - 1) :
                  IF p[i].offset + p[i].size >= MAX_ACCOUNT_FILE_SIZE
                  THEN p[i + 1].id = p[i].id + 1 /\ p[i + 1].offset = 0
                  ELSE p[i + 1].id = p[i].id /\ p[i + 1].offset = p[i].offset + p[i].size
            /\ \A i \in DOMAIN p : p[i].offset < MAX_ACCOUNT_FILE_SIZE

SegmentIds(fs, slot) == {f.id : f \in {g \in DOMAIN fs : g.slot = slot}}

\* C16: a writer started for a slot, once every write before it has been
\* done, takes the highest id of the segment files of the slot plus one (0
\* when there is none), and no id lower than one already used for a record
\* of the slot
C16_WriterStartsAfterHighest ==
    [][(sw'.w.open /\ ~sw.w.open /\ sw'.clean) =>
          /\ sw'.w.id = IF SegmentIds(sw.files, sw'.w.slot) = {}
                        THEN 0
                        ELSE Max(SegmentIds(sw.files, sw'.w.slot)) + 1
          /\ \A i \in DOMAIN sw.placed :
                sw.placed[i].slot = sw'.w.slot => sw.placed[i].id <= sw'.w.id]_vars

ReloadStep == last'.op = "load_or_create" /\ ~disk.up

\* C18: load_or_create gives an error when the index or the trash file is
\* there but cannot be loaded, and otherwise starts from the loaded value,
\* or from an empty one when the file is absent
C18_LoadErrorSurfaced ==
    [][ReloadStep =>
          IF disk.index.state = "corrupt" \/ disk.trash.state = "corrupt"
          THEN ~last'.ok
          ELSE /\ last'.ok
               /\ index' = disk.index.value
               /\ trash' = disk.trash.value]_vars

\* C19: after a reload every file named by the trash exists on disk
C19_LoadedTrashNamesFiles ==
    [][ReloadStep => \A f \in DOMAIN trash' : f \in DOMAIN files']_vars

\* the Signing metas of the transaction's message
SigningMetas(t) == {i \in DOMAIN t.message.accounts : t.message.accounts[i].kind = "Signing"}

\* the signatures of the transaction that verify for the key
VerifyingFor(t, key) ==
    {j \in DOMAIN t.signatures :
        Signature_verify(t.signatures[j], key, Message_to_vec(t.message))}

\* C20: a transaction is ready if and only if its message has an instruction
\* and an account, a meta is Signing, there are as many signatures as Signing
\* metas, and exactly one signature verifies for the key of every Signing meta
C20_ReadyIff ==
    is_ready(trx) <=>
        /\ Len(trx.message.instructions) >= 1
        /\ Len(trx.message.accounts) >= 1
        /\ SigningMetas(trx) # {}
        /\ Len(trx.signatures) = Cardinality(SigningMetas(trx))
        /\ \A i \in SigningMetas(trx) :
                Cardinality(VerifyingFor(trx, trx.message.accounts[i].key)) = 1

RegisterStep == last'.op = "register_transaction"

\* C21: registering a transaction that is not admitted gives
\* InvalidTransactionSignatures and leaves the queue and the status channels
\* as they were; an admitted one is put once at the tail of the queue, with
\* Pending alone in its new status channel
C21_RegisterAdmittedOnly ==
    [][RegisterStep =>
        IF ~is_ready(trx')
        THEN /\ ~last'.ok
             /\ last'.err = "InvalidTransactionSignatures"
             /\ tq' = tq
        ELSE /\ last'.ok
             /\ tq'.queue = Append(tq.queue, [trx |-> trx', chan |-> Len(tq.chans) + 1])
             /\ tq'.chans = Append(tq.chans, [sent |-> <<"Pending">>, held |-> TRUE])
             /\ tq'.executed = tq.executed]_vars

\* an unsigned transaction was refused while a transaction was queued
C21_Witness ==
    /\ last.op = "register_transaction"
    /\ ~last.ok
    /\ tq.queue # <<>>

AddStep == last'.op = "add" /\ last'.ok

\* every signer of the transaction has a signature of the message as it is now
AllSignedNow(t) ==
    \A i \in SigningMetas(t) : VerifyingFor(t, t.message.accounts[i].key) # {}

\* C22: a successful add leaves no signature, so the transaction is not ready
\* after it, and a ready transaction has a signature of each signer over the
\* message as it is now
C22_AddClearsSignatures ==
    [][/\ AddStep => (trx'.signatures = <<>> /\ ~is_ready(trx'))
       /\ is_ready(trx') => AllSignedNow(trx')]_vars

\* an instruction was added to a transaction that was ready
C22_Witness ==
    /\ last.op = "add"
    /\ last.ok
    /\ history.readyBefore
    /\ Len(trx.message.instructions) = 2

\* C23: in a transaction made by add and sign calls, the first signature, when
\* there is one, is the signature of the payer over the message
C23_FirstIsPayer ==
    (history.built /\ trx.signatures # <<>>)
        => Signature_verify(trx.signatures[1], get_payer(trx.message),
                            Message_to_vec(trx.message))

\* the metas added so far for the key of the entry
AddedFor(entry) == {m \in history.metas : m.key = entry.key}

Incompatible(a, b) ==
    \/ a.kind = "Program" /\ b.kind \in {"Wallet", "Signing"}
    \/ b.kind = "Program" /\ a.kind \in {"Wallet", "Signing"}

\* C25: merge(a, b) fails with MergeIncompatibleAccountTypes, a unchanged,
\* exactly when one kind is Program and the other Wallet or Signing; otherwise
\* it gives writable = a.writable or b.writable and kind Signing if either is
\* Signing, else the common kind; kind and writable are the same for
\* merge(b, a); merging a meta with itself changes nothing; a Program meta
\* stays non-writable
C25_MergeRule ==
    call.op = "merge" =>
        LET a == call.a
            b == call.b
            r == call.ab
        IN  /\ ~r.ok <=> Incompatible(a, b)
            /\ ~r.ok => (r.err = "MergeIncompatibleAccountTypes" /\ r.meta = a)
            /\ r.ok => /\ r.meta.key = a.key
                       /\ r.meta.writable = (a.writable \/ b.writable)
                       /\ r.meta.kind = IF "Signing" \in {a.kind, b.kind} THEN "Signing" ELSE a.kind
                       /\ "Signing" \notin {a.kind, b.kind} => a.kind = b.kind
                       /\ call.ba.ok
                       /\ call.ba.meta.kind = r.meta.kind
                       /\ call.ba.meta.writable = r.meta.writable
            /\ a = b => (r.ok /\ r.meta = a)
            /\ (r.ok /\ a.kind = "Program") => ~r.meta.writable

\* a read-only Wallet meta was merged with a writable Signing meta of its key
C25_Witness ==
    /\ call.op = "merge"
    /\ call.a.kind = "Wallet" /\ ~call.a.writable
    /\ call.b.kind = "Signing" /\ call.b.writable
    /\ call.a.key = call.b.key
    /\ call.ab.ok

AccessorCall == call.op \in {"add_prisms", "sub_prisms"}

\* C26: on an account that is not writable, add_prisms and sub_prisms fail with
\* ModificationOfReadOnlyAccount for every amount and leave the balance as it was
C26_ReadOnlyRejected ==
    (AccessorCall /\ ~call.meta.writable) =>
        /\ ~call.res.ok
        /\ call.res.err = "ModificationOfReadOnlyAccount"
        /\ call.res.ws = <<call.prisms>>

\* C27: on a writable account with balance b, add_prisms(n) succeeds exactly
\* when b + n is at most the largest u64 and sub_prisms(n) exactly when n <= b;
\* the balance is then b + n or b - n; otherwise the call fails with
\* ArithmeticOverflow and the balance stays b
C27_CheckedArithmetic ==
    (AccessorCall /\ call.meta.writable) =>
        LET b      == call.prisms
            n      == call.amount
            fits   == IF call.op = "add_prisms" THEN b + n <= Modulus - 1 ELSE n <= b
            result == IF call.op = "add_prisms" THEN b + n ELSE b - n
        IN  /\ call.res.ok <=> fits
            /\ call.res.ok => call.res.ws = <<result>>
            /\ ~call.res.ok => (call.res.err = "ArithmeticOverflow" /\ call.res.ws = <<b>>)

\* an addition that would pass the largest u64 was refused on a writable account
C27_Witness ==
    /\ call.op = "add_prisms"
    /\ call.meta.writable
    /\ call.prisms + call.amount > Modulus - 1
    /\ ~call.res.ok

\* C28: Transfer(amount) fails with Custom when its first account does not
\* sign, with the missing-accounts error when it is given fewer than two
\* accounts (and the first one, if any, signs); when it succeeds the payer has
\* amount less, the receiver amount more, every other account is unchanged, and
\* a payer that is also the receiver keeps its balance
C28_TransferRule ==
    call.op = "transfer" =>
        LET ids   == call.ids
            before == call.ws
            after  == call.res.ws
            unsigned == Len(ids) >= 1 /\ call.metas[ids[1]].kind # "Signing"
        IN  /\ unsigned => (~call.res.ok /\ call.res.err = "Custom")
            /\ (Len(ids) < 2 /\ ~unsigned) => (~call.res.ok /\ call.res.err = "MissingAccounts")
            /\ call.res.ok =>
                /\ \A i \in DOMAIN before : i \notin {ids[1], ids[2]} => after[i] = before[i]
                /\ IF ids[1] = ids[2]
                   THEN after[ids[1]] = before[ids[1]]
                   ELSE /\ after[ids[1]] = before[ids[1]] - call.amount
                        /\ after[ids[2]] = before[ids[2]] + call.amount

\* a transfer of a positive amount between two accounts succeeded
C28_Witness ==
    /\ call.op = "transfer"
    /\ call.res.ok
    /\ call.amount > 0
    /\ call.ids = <<1, 2, 3>>

\* the signatures added while round blocks had been finalized, in order
RECURSIVE AddedIn(_, _)
AddedIn(added, round) ==
    IF added = <<>>
    THEN <<>>
    ELSE IF Head(added).round = round
         THEN <<Head(added).sig>> \o AddedIn(Tail(added), round)
         ELSE AddedIn(Tail(added), round)

\* C29: the k-th block finalized has slot k, has for parent the hash of the
\* block finalized before it (the sentinel for the first), has for hash the
\* hash of its parent, slot and signatures, and holds exactly the signatures
\* added since the block before it, in order; the signatures added since the
\* last finalize are in the current block, so that every signature added is
\* in exactly one block
C29_BlockChain ==
    /\ \A k \in DOMAIN blk.chain :
        LET b == blk.chain[k]
        IN  /\ b.slot = k
            /\ b.parent = IF k = 1 THEN GENESIS_BLOCK ELSE blk.chain[k - 1].hash
            /\ b.hash = <<b.parent, b.slot, b.transactions>>
            /\ b.transactions = AddedIn(blk.added, k - 1)
    /\ blk.block.transactions = AddedIn(blk.added, Len(blk.chain))
    /\ blk.block.slot = Len(blk.chain) + 1
    /\ \A i \in DOMAIN blk.added : blk.added[i].round <= Len(blk.chain)

\* two blocks were finalized, each with a signature of its own
C29_Witness ==
    /\ Len(blk.chain) = 2
    /\ blk.chain[1].transactions # <<>>
    /\ blk.chain[2].transactions # <<>>
    /\ blk.chain[1].transactions # blk.chain[2].transactions

\* the processor gave a result for every transaction it executed
AllReported == \A i \in DOMAIN tq.executed : tq.executed[i].result \in {"Succeeded", "Failed"}

\* C30: the status channel of a transaction the processor has executed holds
\* Pending, then the one terminal status of its execution, and the processor
\* is still there for the transactions that wait in the queue (in a build
\* that checks integer overflow, when no execution has overflowed)
C30_StatusReported ==
    (overflowChecks /\ AllReported) =>
        /\ \A i \in DOMAIN tq.executed :
            tq.chans[tq.executed[i].chan].sent = <<"Pending", tq.executed[i].result>>
        /\ alive

\* C36: no location is at the same time the index target of a key and present
\* in the trash, in every state reached by save_account and cleanup calls,
\* a save_account whose write failed included
C36_IndexNotInTrash ==
    \A key \in DOMAIN index : ~InTrash(trash, index[key])

\* how many times the key has signed since the last add
SignsBy(key) == Cardinality({i \in DOMAIN history.signs : history.signs[i] = key})

\* every Signing key of the transaction has signed exactly once since the
\* last add, and there is such a key
SignedOnce(t, signs) ==
    /\ SigningMetas(t) # {}
    /\ \A m \in SigningMetas(t) :
            Cardinality({i \in DOMAIN signs : signs[i] = t.message.accounts[m].key}) = 1

C35_CompiledIdsInRange ==
    (call.op = "add_instruction" /\ call.ok) =>
        LET accounts == call.msg.accounts
            compiled == call.msg.instructions[Len(call.msg.instructions)]
        IN  /\ compiled.program_account_id \in DOMAIN accounts
            /\ accounts[compiled.program_account_id].key = call.instruction.program_id
            /\ Len(compiled.accounts) = Len(call.instruction.accounts)
            /\ \A i \in DOMAIN compiled.accounts :
                    /\ compiled.accounts[i] \in DOMAIN accounts
                    /\ accounts[compiled.accounts[i]].key = call.instruction.accounts[i].key

\* C34: the instructions of a transaction are dispatched in message order,
\* each on the working set the preceding ones left; all the metas of one
\* account show the same balance before and after every instruction (one
\* working copy per account); the first instruction that fails ends the loop
\* with its error and the instructions after it are not dispatched
C34_OneWorkingCopy ==
    call.op = "run" =>
        LET metas        == call.msg.accounts
            instructions == call.msg.instructions
            After(n)     == call.steps[n + 1]
        IN  /\ After(0) = [ok |-> TRUE, err |-> "", ws |-> call.ws]
            /\ call.result = After(Len(instructions))
            /\ \A n \in 1 .. Len(instructions) :
                    IF After(n - 1).ok
                    THEN After(n) = dispatch(metas[instructions[n].program_account_id].key,
                                             After(n - 1).ws, metas,
                                             instructions[n].accounts, instructions[n].data)
                    ELSE After(n) = After(n - 1)
            /\ \A n \in 0 .. Len(instructions) :
                    \A i \in DOMAIN metas, j \in DOMAIN metas :
                        metas[i].key = metas[j].key => After(n).ws[i] = After(n).ws[j]

\* C37: after a transaction of the system program has been executed, every
\* account whose persisted balance is lower than before has a Signing meta in
\* the message: the payer of the fee or the payer of a transfer
C37_DebitedOnlySigners ==
    [][Executed =>
          \A key \in WalletKeys :
              Balance(TheVaultNext, key) < Balance(TheVault, key) =>
                  \E i \in DOMAIN last'.msg.accounts :
                      /\ last'.msg.accounts[i].key = key
                      /\ last'.msg.accounts[i].kind = "Signing"]_vars

\* a committed transfer has lowered the balance of its payer by the amount
\* and the fee and raised the balance of the receiver
C37_Witness ==
    /\ last.op = "exec"
    /\ last.status = "Succeeded"
    /\ last.key = "A"
    /\ ~IsBurn(last.msg)
    /\ Balance(TheVault, "A") = 1000000 - 500000 - TRANSACTION_FEE
    /\ Balance(TheVault, "B") \in {500000, 1000000, 1500000}
    /\ \E i \in DOMAIN last.msg.accounts :
            last.msg.accounts[i].key = "B" /\ last.msg.accounts[i].kind = "Wallet"

\* C39: a turn of the processor whose execution ended with a result leaves
\* the processor running, whether or not the submitter still holds the
\* receiver of the status (in a build that checks integer overflow)
C39_ProcessorSurvivesDrop ==
    [][(overflowChecks /\ last'.op = "exec" /\ Len(tq'.executed) = Len(tq.executed) + 1
            /\ tq'.executed[Len(tq'.executed)].result \in {"Succeeded", "Failed"}) =>
          alive']_vars

\* the ends of executions logged before position k
DoneBefore(k) == {j \in 1 .. (k - 1) : pr.log[j].ev = "done"}

\* C31: with one processor task, when the accounts of a transaction are read
\* every transaction that entered the queue before it has ended (committed,
\* failed) and the balances in the vault are those the last ended
\* transaction left: the transaction observes what the earlier ones committed
C31_QueueOrder ==
    \A k \in DOMAIN pr.log :
        pr.log[k].ev = "read" =>
            /\ \A c \in 1 .. (pr.log[k].chan - 1) :
                    \E j \in DoneBefore(k) : pr.log[j].chan = c
            /\ DoneBefore(k) # {} => pr.log[k].bal = pr.log[Max(DoneBefore(k))].bal

\* the second transaction of the queue has read balances that the first one
\* has committed
C31_Witness ==
    /\ Len(pr.log) >= 3
    /\ pr.log[1].ev = "read" /\ pr.log[1].chan = 1
    /\ pr.log[2].ev = "done" /\ pr.log[2].status = "Succeeded"
    /\ pr.log[3].ev = "read" /\ pr.log[3].chan = 2
    /\ pr.log[3].bal # pr.log[1].bal

\* C33: a processor task is among the readers of the vault lock exactly
\* while it reads the accounts of its transaction and is its writer exactly
\* while it commits; the step that debits the fee, dispatches the
\* instructions and checks the total starts without a lock and leaves the
\* lock and the vault as they are
C33_LockOnlyAroundVault ==
    [][/\ \A p \in Processors :
            /\ p \in pr'.lock.readers <=> pr'.task[p].pc = "reading"
            /\ pr'.lock.writer = p <=> pr'.task[p].pc = "committing"
       /\ \A p \in Processors :
            (pr.task[p].pc = "run" /\ pr'.task[p] # pr.task[p]) =>
                /\ p \notin pr.lock.readers
                /\ pr.lock.writer # p
                /\ pr'.lock = pr.lock
                /\ UNCHANGED <<files, index, trash>>]_vars

\* the task has dispatched the instructions of a transfer and waits for the
\* write lock, which nobody holds
C33_Witness ==
    /\ pr.task[1].pc = "commit"
    /\ pr.task[1].ws # pr.task[1].read
    /\ pr.lock = NoLock
    /\ Balances(TheVault) = pr.log[Len(pr.log)].bal


\* the transactions that are still in the queue
Queued == {tq.queue[i].chan : i \in DOMAIN tq.queue}

\* the task is between the receipt of a transaction and the end of its turn
InFlight(p) == pr.task[p].pc \notin {"select", "exited", "panicked"}

\* C32: with the stop signal sent, the turn of a transaction in execution
\* that came to a result ends with its terminal status in its channel and
\* the task back at the select!, and when the loop exits the transactions
\* still queued hold Pending only, every other one its terminal status
C32_StopCompletes ==
    [][/\ (pr.stop[1] /\ InFlight(1) /\ ~InFlight(1)' /\ pr'.task[1].status # "Panicked") =>
            /\ pr'.task[1].pc = "select"
            /\ Len(tq'.chans[pr.task[1].chan].sent) = 2
            /\ tq'.chans[pr.task[1].chan].sent[2] \in {"Succeeded", "Failed"}
       /\ pr'.task[1].pc = "exited" =>
            \A c \in DOMAIN tq'.chans :
                IF c \in Queued'
                THEN tq'.chans[c].sent = <<"Pending">>
                ELSE Len(tq'.chans[c].sent) = 2]_vars

\* the scheduler runs a task that can take a step, and the select! of the
\* loop picks at random among its ready branches: the stop_control branch
\* is not passed over for ever
SpecProcessorFair ==
    /\ SpecProcessor
    /\ WF_vars(LockRead(1) \/ ReadAccounts(1) \/ RunTransaction(1) \/ LockWrite(1)
                \/ SaveAccounts(1) \/ SendStatus(1))
    /\ SF_vars(Exit(1))

\* once the stop signal is sent the task ends: the loop exits, or the task
\* panics at the send of a status
StopEndsTask == pr.stop[1] ~> pr.task[1].pc \in {"exited", "panicked"}


\* the transactions whose accounts a task has read, in the order of the log
ReadChans == [k \in {j \in DOMAIN pr.log : pr.log[j].ev = "read"} |-> pr.log[k].chan]

\* C40: with several processor tasks on the same queue and the same vault,
\* no transaction is taken by two tasks, and a commit finds in the vault the
\* balances that its task read for the accounts of the transaction and
\* lowers the total of the prisms by the fee, when it succeeds, or not at all
C40_Serialisable ==
    [][/\ \A j, k \in DOMAIN ReadChans' : ReadChans'[j] = ReadChans'[k] => j = k
       /\ \A p \in Processors :
            (pr.task[p].pc = "committing" /\ pr'.task[p].pc # "committing") =>
                /\ \A i \in DOMAIN pr.task[p].msg.accounts :
                        pr.task[p].msg.accounts[i].kind # "Program" =>
                            Vault_get(TheVault, pr.task[p].msg.accounts[i].key).prisms
                                = pr.task[p].read[i]
                /\ SumOver(TheVaultNext, WalletKeys) =
                        SumOver(TheVault, WalletKeys)
                            - (IF pr'.task[p].status = "Succeeded" THEN TRANSACTION_FEE ELSE 0)]_vars

====
